---- MODULE Spec2Model ----
(***************************************************************************)
(* Authentication and session lifecycle of the KLM Pegasus backend:        *)
(* token issue and rotation (routes register, login, refresh, logout,      *)
(* logout-all, change-password), the verification middleware and the       *)
(* per-user rate limiter.                                                  *)
(*                                                                         *)
(* Every request is a process.  One action is one continuation of the      *)
(* handler: the code between two awaited storage calls, together with the  *)
(* storage call it ends with.  Time is the wall clock in milliseconds.     *)
(***************************************************************************)
EXTENDS Integers, Sequences, FiniteSets, TLC

VARIABLES users, sessions, now, ticks, changes, pc, loc, last, issued,
          accFor, refFor, accepted, pwRevoked, hist,
          maxRequests, windowMs, userRequests, rlLog,
          apiKeys, env, sites, pages

dbVars    == <<users, sessions>>
procVars  == <<pc, loc, last>>
ghostVars == <<accFor, refFor, accepted, pwRevoked, hist>>
authVars  == <<users, sessions, changes, pc, loc, last, issued,
               accFor, refFor, accepted, pwRevoked, hist>>
authVars_noLast == <<users, sessions, changes, pc, loc, issued,
                     accFor, refFor, accepted, pwRevoked, hist>>
rlVars    == <<maxRequests, windowMs, userRequests, rlLog>>
siteVars  == <<sites, pages>>
extVars   == <<apiKeys, env, sites, pages>>
vars      == <<users, sessions, now, ticks, changes, pc, loc, last, issued,
               accFor, refFor, accepted, pwRevoked, hist,
               maxRequests, windowMs, userRequests, rlLog, apiKeys, env,
               sites, pages>>

----------------------------------------------------------------------------
(* Bounds of the model *)

MaxTicks    == 2      \* clock advances in one behaviour
MaxSessions == 2      \* rows of user_sessions
MaxSites    == 2      \* rows of sites
MaxChanges  == 1      \* changes made to an account from outside these routes
MaxRLCalls  == 4      \* requests sent through one rate limiter
MaxLimit    == 3      \* largest maxRequests a rate limiter is built with
MaxKeys     == 2      \* rows of api_keys

Procs     == {"p1", "p2"}
Emails    == {"a@x.com"}
Passwords == {"Aa1!aaaa", "Bb2?bbbb"}

(* What a client can put in the body of a register or login request: the   *)
(* registered spelling of an address, the same address in capitals, a      *)
(* second address, a string that is no address; a password of the required *)
(* shape, one too short, none.                                             *)
RawEmails    == {"a@x.com", "A@x.com", "b@x.com", "not-an-email"}
RawPasswords == Passwords \cup {"short", ""}

----------------------------------------------------------------------------
(* Program constants *)

AccessTTLSec   == 3600                  \* JWT_EXPIRES_IN default '1h'
RefreshTTLSec  == 604800                \* JWT_REFRESH_EXPIRES_IN default '7d'
SessionTTLMs   == 7 * 24 * 60 * 60 * 1000
MsPerSec       == 1000

(* Values an operator may put in JWT_SECRET and JWT_REFRESH_SECRET, with   *)
(* the number of characters of each                                        *)
SecretLength ==
    [s \in {"access-secret", "refresh-secret", "changeme"} |->
       CASE s = "access-secret"  -> 40
         [] s = "refresh-secret" -> 32
         [] s = "changeme"       -> 8]

Secrets == DOMAIN SecretLength

(* z.string().min(32) *)
MinSecretLength == 32

(* envSchema.parse(process.env), the two secrets: each a string of at      *)
(* least 32 characters                                                     *)
envSchema(e) ==
    /\ SecretLength[e.JWT_SECRET] >= MinSecretLength
    /\ SecretLength[e.JWT_REFRESH_SECRET] >= MinSecretLength

(* The deployments that start *)
ValidEnvs ==
    {e \in [JWT_SECRET : Secrets, JWT_REFRESH_SECRET : Secrets] : envSchema(e)}

(* const env = envSchema.parse(process.env): the secrets of a deployment   *)
DefaultEnv == [JWT_SECRET |-> "access-secret",
               JWT_REFRESH_SECRET |-> "refresh-secret"]

jwtSecret        == env.JWT_SECRET
jwtRefreshSecret == env.JWT_REFRESH_SECRET

Roles    == {"USER", "ADMIN", "SUPER_ADMIN"}
Plans    == {"BASIC", "PREMIUM", "ENTERPRISE"}
Statuses == {"ACTIVE", "INACTIVE", "SUSPENDED", "CANCELLED"}

(* The steps by which the clock advances: inside one second, to the next   *)
(* second, past the access token's life, to the last millisecond of a      *)
(* session's life.                                                         *)
Millisecond  == 1
NextSecond   == MsPerSec
AccessLife   == AccessTTLSec * MsPerSec
SessionLife1 == SessionTTLMs - 1

----------------------------------------------------------------------------
(* Records *)

NoUser == [id |-> 0, email |-> "", passwordHash |-> "", role |-> "",
           subscriptionPlan |-> "", subscriptionStatus |-> "", lastLogin |-> -1]

NoIdentity == [id |-> 0, email |-> "", role |-> "",
               subscriptionPlan |-> "", subscriptionStatus |-> ""]

(* A site name is its text and the number of " Copy" suffixes it carries;  *)
(* a slug is the slug of a name and the counter generateSlug appends       *)
(* (0: none).                                                              *)
NoName == [text |-> "", copies |-> 0]
NoSlug == [text |-> "", copies |-> 0, counter |-> 0]
NoSite == [id |-> 0, userId |-> 0, name |-> NoName, slug |-> NoSlug,
           planAt |-> ""]

NoToken == [userId |-> 0, email |-> "", role |-> "", subscriptionPlan |-> "",
            subscriptionStatus |-> "", iat |-> 0, exp |-> 0, sig |-> "none"]

(* A string that is no JWT signed by this server. *)
ForgedToken == [NoToken EXCEPT !.sig = "forged"]

NoTokens == [accessToken |-> NoToken, refreshToken |-> NoToken]

(* select: { id, email, role, subscriptionPlan, subscriptionStatus } *)
SelectIdentity(u) ==
    [id |-> u.id, email |-> u.email, role |-> u.role,
     subscriptionPlan |-> u.subscriptionPlan,
     subscriptionStatus |-> u.subscriptionStatus]

UserIds    == 1..Len(users)
SessionIds == 1..Len(sessions)

FindUserByEmail(email) ==
    IF \E i \in UserIds : users[i].email = email
    THEN users[CHOOSE i \in UserIds : users[i].email = email]
    ELSE NoUser

FindUserById(id) == IF id \in UserIds THEN users[id] ELSE NoUser

----------------------------------------------------------------------------
(* jsonwebtoken and bcrypt *)

(* jwt.sign(payload, secret, {expiresIn}): iat is the clock in whole seconds *)
JwtSign(u, secret, ttlSec, t) ==
    [userId |-> u.id, email |-> u.email, role |-> u.role,
     subscriptionPlan |-> u.subscriptionPlan,
     subscriptionStatus |-> u.subscriptionStatus,
     iat |-> t \div MsPerSec, exp |-> (t \div MsPerSec) + ttlSec, sig |-> secret]

(* jwt.verify(token, secret): the signature first, then the expiry *)
JwtVerify(tok, secret, t) ==
    IF tok.sig # secret THEN "JsonWebTokenError"
    ELSE IF (t \div MsPerSec) >= tok.exp THEN "TokenExpiredError"
    ELSE "ok"

generateTokens(u, t) ==
    [accessToken  |-> JwtSign(u, jwtSecret, AccessTTLSec, t),
     refreshToken |-> JwtSign(u, jwtRefreshSecret, RefreshTTLSec, t)]

hashPassword(password) == <<"bcrypt", password>>

verifyPassword(password, hash) == hash = hashPassword(password)

----------------------------------------------------------------------------
(* express-validator, on the strings of RawEmails and RawPasswords *)

(* body('email').isEmail() *)
isEmail(email) == email \in {"a@x.com", "A@x.com", "b@x.com"}

(* body('email').normalizeEmail(): the address in lower case *)
normalizeEmail(email) == IF email = "A@x.com" THEN "a@x.com" ELSE email

(* body('password').notEmpty() *)
notEmpty(password) == password # ""

(* isLength({ min: 8 }) and one lower case letter, one capital, one digit, *)
(* one special character                                                   *)
isStrongPassword(password) == password \in {"Aa1!aaaa", "Bb2?bbbb"}

loginValidation(email, password) == isEmail(email) /\ notEmpty(password)

registerValidation(email, password) == isEmail(email) /\ isStrongPassword(password)

----------------------------------------------------------------------------
(* Responses and handler locals *)

(* What the model remembers of a request for the properties below: whether *)
(* its refresh token had been accepted before it started, the refreshes of *)
(* the same token in flight with it and whether one of them succeeded, the *)
(* token's validity and the live account when the middleware read it,      *)
(* whether the token's session was already revoked then, and whether a     *)
(* password change had revoked the token before the response.              *)
(* For a login: whether the address is unknown, the password wrong or both *)
(* right (cred), and whether the body passed the validators.               *)
NoHist == [reused |-> FALSE, conc |-> {}, peerOk |-> FALSE, valid |-> FALSE,
           live |-> NoIdentity, revoked |-> FALSE, pwRev |-> FALSE,
           cred |-> "none", wellFormed |-> TRUE, fault |-> FALSE]

(* last is the response the step just taken has sent, with the request it  *)
(* answers and whether authMiddleware or the route sent it; NoResp after a *)
(* step that sends none.                                                   *)
Resp(op, tok, status, msg) ==
    [op |-> op, tok |-> tok, status |-> status, msg |-> msg,
     tokens |-> NoTokens, user |-> NoIdentity, h |-> NoHist, p |-> "",
     by |-> "route", events |-> <<>>, calls |-> <<>>, need |-> {}]

NoResp == Resp("none", NoToken, 0, "")

NoLoc == [op |-> "none", tok |-> NoToken, user |-> NoUser, reqUser |-> NoIdentity,
          sid |-> 0, currentPassword |-> "", newPassword |-> "",
          tokens |-> NoTokens, events |-> <<>>,
          count |-> 0, name |-> NoName, slug |-> NoSlug, site |-> 0,
          pages |-> {}]

(* logSecurityEvent(event, severity, meta) *)
logSecurityEvent(event, severity) == [event |-> event, severity |-> severity]

(* The request of process p ends with response r. *)
Respond(p, r) ==
    /\ pc'   = [pc EXCEPT ![p] = "idle"]
    /\ loc'  = [loc EXCEPT ![p] = NoLoc]
    /\ last' = [r EXCEPT !.p = p]

(* errorHandler: an AppError leaves with its own status and code; a Prisma *)
(* P2002 (unique constraint) becomes 409 DUPLICATE_ENTRY.                  *)
handlePrismaError(code) ==
    CASE code = "P2002" -> [status |-> 409, msg |-> "DUPLICATE_ENTRY"]
      [] code = "P2025" -> [status |-> 404, msg |-> "NOT_FOUND"]
      [] OTHER          -> [status |-> 500, msg |-> "DATABASE_ERROR"]

(* user_sessions_token_key: no two rows hold the same access token *)
TokenTaken(tok, exceptSid) ==
    \E s \in SessionIds : s # exceptSid /\ sessions[s].token = tok

----------------------------------------------------------------------------
(* userRateLimit(maxRequests, windowMs) *)

RLUsers == {"u1", "u2"}
Anonymous == "anonymous"

NoLimit == [count |-> 0, resetTime |-> -1]

(* const userRequests = new Map() in the closure of one limiter *)
RateLimitInit(limits, windows) ==
    /\ maxRequests \in limits
    /\ windowMs \in windows
    /\ userRequests = [u \in RLUsers |-> NoLimit]
    /\ rlLog = <<>>

(* Math.ceil(a / b) *)
Ceil(a, b) == -((-a) \div b)

(* One answer of the limiter; logSecurityEvent('User rate limit exceeded', *)
(* 'medium') goes with the 429 and with nothing else                       *)
RLEvent(who, verdict, retryAfter) ==
    [user |-> who, at |-> now, verdict |-> verdict, retryAfter |-> retryAfter,
     events |-> IF verdict = "429"
                THEN <<logSecurityEvent("User rate limit exceeded", "medium")>>
                ELSE <<>>]

(* The limit tested one request too late *)
LimitReached_strict(userLimit) == userLimit.count > maxRequests

(* if (userLimit.count >= maxRequests) *)
LimitReached(userLimit) == userLimit.count >= maxRequests

(* One entry for every identity *)
LimitKey_shared(who) == "u1"

(* const userId = req.user.id: the key of the entry in userRequests *)
LimitKey(who) == who

(* A window that never ends *)
WindowExpired_never(userLimit) == userLimit = NoLimit

(* if (!userLimit || now > userLimit.resetTime) *)
WindowExpired(userLimit) == userLimit = NoLimit \/ now > userLimit.resetTime

(* One request through the limiter; who is req.user.id, or Anonymous when  *)
(* no identity is attached.                                                *)
userRateLimit(who) ==
    /\ Len(rlLog) < MaxRLCalls
    /\ IF who = Anonymous
       THEN /\ rlLog' = Append(rlLog, RLEvent(who, "next", 0))
            /\ UNCHANGED userRequests
       ELSE LET userLimit == userRequests[LimitKey(who)] IN
            IF WindowExpired(userLimit)
            THEN /\ userRequests' = [userRequests EXCEPT ![LimitKey(who)] =
                                       [count |-> 1, resetTime |-> now + windowMs]]
                 /\ rlLog' = Append(rlLog, RLEvent(who, "next", 0))
            ELSE IF LimitReached(userLimit)
            THEN /\ rlLog' = Append(rlLog, RLEvent(who, "429",
                                Ceil(userLimit.resetTime - now, MsPerSec)))
                 /\ UNCHANGED userRequests
            ELSE /\ userRequests' = [userRequests EXCEPT ![LimitKey(who)].count = @ + 1]
                 /\ rlLog' = Append(rlLog, RLEvent(who, "next", 0))
    /\ UNCHANGED <<maxRequests, windowMs, now, ticks, authVars, extVars>>

----------------------------------------------------------------------------
Init ==
    /\ env = DefaultEnv
    /\ sites = <<>>
    /\ pages = {}
    /\ apiKeys = <<>>
    /\ users = <<>>
    /\ sessions = <<>>
    /\ now = 0
    /\ ticks = 0
    /\ changes = 0
    /\ pc = [p \in Procs |-> "idle"]
    /\ loc = [p \in Procs |-> NoLoc]
    /\ last = NoResp
    /\ issued = {}
    /\ accFor = <<>>
    /\ refFor = <<>>
    /\ accepted = {}
    /\ pwRevoked = {}
    /\ hist = [p \in Procs |-> NoHist]
    /\ RateLimitInit({5}, {60000})

(* The clock stays within two session lives of the first registration. *)
Horizon == 2 * SessionTTLMs

(* Date.now() moves on between two continuations. *)
Tick(d) ==
    /\ ticks < MaxTicks
    /\ now + d <= Horizon
    /\ now' = now + d
    /\ ticks' = ticks + 1
    /\ last' = NoResp
    /\ UNCHANGED <<users, sessions, changes, pc, loc, issued, ghostVars, rlVars, extVars>>

----------------------------------------------------------------------------
(* POST /register *)

NewUser(id, email, password) ==
    [id |-> id, email |-> email, passwordHash |-> hashPassword(password),
     role |-> "USER", subscriptionPlan |-> "BASIC",
     subscriptionStatus |-> "ACTIVE", lastLogin |-> -1]

NewSession(userId, tokens, t) ==
    [userId |-> userId, token |-> tokens.accessToken,
     refreshToken |-> tokens.refreshToken,
     expiresAt |-> t + SessionTTLMs, isActive |-> TRUE]

(* prisma.userSession.create and what the model remembers of it *)
CreateSession(userId, tokens) ==
    /\ sessions' = Append(sessions, NewSession(userId, tokens, now))
    /\ accFor' = Append(accFor, {tokens.accessToken})
    /\ refFor' = Append(refFor, {tokens.refreshToken})

(* validationResult(req), then findUnique({ where: { email } }): 409       *)
(* USER_EXISTS when the email is taken                                     *)
RegisterFind(p, email, password) ==
    /\ pc[p] = "idle"
    /\ hist' = [hist EXCEPT ![p] = NoHist]
    /\ LET h == [NoHist EXCEPT
                   !.cred = IF \E u \in UserIds :
                                  users[u].email = normalizeEmail(email)
                            THEN "taken" ELSE "free",
                   !.wellFormed = registerValidation(email, password)]
       IN
       IF ~registerValidation(email, password)
       THEN Respond(p, [Resp("register", NoToken, 400, "VALIDATION_ERROR")
                          EXCEPT !.h = h])
       ELSE IF FindUserByEmail(normalizeEmail(email)) # NoUser
       THEN Respond(p, [Resp("register", NoToken, 409, "USER_EXISTS")
                          EXCEPT !.h = h])
       ELSE /\ pc' = [pc EXCEPT ![p] = "register_create"]
            /\ loc' = [loc EXCEPT ![p] =
                 [NoLoc EXCEPT !.op = "register",
                               !.user = NewUser(0, normalizeEmail(email), password)]]
            /\ last' = NoResp
    /\ UNCHANGED <<users, sessions, now, ticks, changes, issued,
                   accFor, refFor, accepted, pwRevoked, rlVars, extVars>>

(* A users table without the unique index on email *)
EmailTaken_noIndex(email) == FALSE

(* users_email_key: no two rows hold the same email *)
EmailTaken(email) == \E u \in UserIds : users[u].email = email

(* prisma.user.create: users_email_key rejects a second row for the email *)
RegisterCreate(p) ==
    /\ pc[p] = "register_create"
    /\ IF EmailTaken(loc[p].user.email)
       THEN /\ Respond(p, Resp("register", NoToken,
                               handlePrismaError("P2002").status,
                               handlePrismaError("P2002").msg))
            /\ UNCHANGED users
       ELSE /\ users' = Append(users, [loc[p].user EXCEPT !.id = Len(users) + 1])
            /\ pc' = [pc EXCEPT ![p] = "register_session"]
            /\ loc' = [loc EXCEPT ![p].user = [@ EXCEPT !.id = Len(users) + 1]]
            /\ last' = NoResp
    /\ UNCHANGED <<sessions, now, ticks, changes, issued, ghostVars, rlVars, extVars>>

(* generateTokens(user), prisma.userSession.create, 201 with the pair *)
RegisterSession(p) ==
    /\ pc[p] = "register_session"
    /\ Len(sessions) < MaxSessions
    /\ LET tokens == generateTokens(loc[p].user, now) IN
       IF TokenTaken(tokens.accessToken, 0)
       THEN /\ Respond(p, Resp("register", NoToken,
                               handlePrismaError("P2002").status,
                               handlePrismaError("P2002").msg))
            /\ UNCHANGED <<sessions, issued, accFor, refFor>>
       ELSE /\ CreateSession(loc[p].user.id, tokens)
            /\ issued' = issued \cup {tokens.accessToken, tokens.refreshToken}
            /\ Respond(p, [Resp("register", NoToken, 201, "User registered successfully")
                             EXCEPT !.tokens = tokens,
                                    !.user = SelectIdentity(loc[p].user)])
    /\ UNCHANGED <<users, now, ticks, changes, accepted, pwRevoked, hist, rlVars, extVars>>

----------------------------------------------------------------------------
(* POST /login *)

(* The account status tested before the password *)
LoginChecks_statusFirst(user, password) ==
    IF user = NoUser
    THEN [status |-> 401, msg |-> "INVALID_CREDENTIALS",
          events |-> <<logSecurityEvent("Login attempt with non-existent email", "medium")>>]
    ELSE IF user.subscriptionStatus # "ACTIVE"
    THEN [status |-> 403, msg |-> "ACCOUNT_INACTIVE",
          events |-> <<logSecurityEvent("Login attempt with inactive account", "low")>>]
    ELSE IF ~verifyPassword(password, user.passwordHash)
    THEN [status |-> 401, msg |-> "INVALID_CREDENTIALS",
          events |-> <<logSecurityEvent("Login attempt with invalid password", "medium")>>]
    ELSE [status |-> 0, msg |-> "next", events |-> <<>>]

(* if (!user), if (!isPasswordValid), if (user.subscriptionStatus !==      *)
(* 'ACTIVE'), in this order; status 0 when the login goes on               *)
LoginChecks(user, password) ==
    IF user = NoUser
    THEN [status |-> 401, msg |-> "INVALID_CREDENTIALS",
          events |-> <<logSecurityEvent("Login attempt with non-existent email", "medium")>>]
    ELSE IF ~verifyPassword(password, user.passwordHash)
    THEN [status |-> 401, msg |-> "INVALID_CREDENTIALS",
          events |-> <<logSecurityEvent("Login attempt with invalid password", "medium")>>]
    ELSE IF user.subscriptionStatus # "ACTIVE"
    THEN [status |-> 403, msg |-> "ACCOUNT_INACTIVE",
          events |-> <<logSecurityEvent("Login attempt with inactive account", "low")>>]
    ELSE [status |-> 0, msg |-> "next", events |-> <<>>]

(* Whether the address of a login is unknown, its password wrong, or both  *)
(* right                                                                   *)
Credentials(email, password) ==
    IF \A u \in UserIds : users[u].email # normalizeEmail(email)
    THEN "unknown"
    ELSE IF \E u \in UserIds : /\ users[u].email = normalizeEmail(email)
                                /\ users[u].passwordHash = hashPassword(password)
    THEN "right"
    ELSE "wrong"

(* validationResult(req), findUnique by email, verifyPassword, the status  *)
(* check                                                                   *)
LoginFind(p, email, password) ==
    /\ pc[p] = "idle"
    /\ hist' = [hist EXCEPT ![p] = NoHist]
    /\ LET user == FindUserByEmail(normalizeEmail(email))
           d    == LoginChecks(user, password)
           h    == [NoHist EXCEPT !.cred = Credentials(email, password),
                                  !.wellFormed = loginValidation(email, password),
                                  !.live = SelectIdentity(user)]
       IN
       IF ~loginValidation(email, password)
       THEN Respond(p, [Resp("login", NoToken, 400, "VALIDATION_ERROR")
                          EXCEPT !.h = h])
       ELSE IF d.status # 0
       THEN Respond(p, [Resp("login", NoToken, d.status, d.msg)
                          EXCEPT !.h = h, !.events = d.events])
       ELSE /\ pc' = [pc EXCEPT ![p] = "login_session"]
            /\ loc' = [loc EXCEPT ![p] = [NoLoc EXCEPT !.op = "login", !.user = user]]
            /\ last' = NoResp
    /\ UNCHANGED <<users, sessions, now, ticks, changes, issued,
                   accFor, refFor, accepted, pwRevoked, rlVars, extVars>>

(* generateTokens(user), prisma.userSession.create *)
LoginSessionUpTo(p, cap) ==
    /\ pc[p] = "login_session"
    /\ Len(sessions) < cap
    /\ LET tokens == generateTokens(loc[p].user, now) IN
       IF TokenTaken(tokens.accessToken, 0)
       THEN /\ Respond(p, Resp("login", NoToken,
                               handlePrismaError("P2002").status,
                               handlePrismaError("P2002").msg))
            /\ UNCHANGED <<sessions, accFor, refFor>>
       ELSE /\ CreateSession(loc[p].user.id, tokens)
            /\ pc' = [pc EXCEPT ![p] = "login_lastLogin"]
            /\ loc' = [loc EXCEPT ![p].tokens = tokens]
            /\ last' = NoResp
    /\ UNCHANGED <<users, now, ticks, changes, issued, accepted, pwRevoked, hist, rlVars, extVars>>

LoginSession(p) == LoginSessionUpTo(p, MaxSessions)

(* prisma.user.update({ lastLogin }), 200 with the pair *)
LoginLastLogin(p) ==
    /\ pc[p] = "login_lastLogin"
    /\ users' = [users EXCEPT ![loc[p].user.id].lastLogin = now]
    /\ issued' = issued \cup {loc[p].tokens.accessToken, loc[p].tokens.refreshToken}
    /\ Respond(p, [Resp("login", NoToken, 200, "Login successful")
                     EXCEPT !.tokens = loc[p].tokens,
                            !.user = SelectIdentity(loc[p].user)])
    /\ UNCHANGED <<sessions, now, ticks, changes, ghostVars, rlVars, extVars>>

----------------------------------------------------------------------------
(* POST /refresh *)

(* jsonwebtoken: TokenExpiredError and NotBeforeError extend JsonWebTokenError *)
IsJsonWebTokenError(err) ==
    err \in {"JsonWebTokenError", "TokenExpiredError", "NotBeforeError"}

(* findFirst({ where: { refreshToken, isActive: true, expiresAt: { gt: now } } }) *)
ActiveByRefreshToken(tok) ==
    {s \in SessionIds : /\ sessions[s].refreshToken = tok
                        /\ sessions[s].isActive
                        /\ sessions[s].expiresAt > now}

(* The refreshes of token tok that are between their lookup and their update *)
InFlightRefresh(tok) ==
    {q \in Procs : pc[q] = "refresh_update" /\ loc[q].tok = tok}

(* jwt.verify(refreshToken, refreshSecret), then the session lookup with   *)
(* the owning user joined in                                               *)
RefreshFind(p, tok) ==
    /\ pc[p] = "idle"
    /\ LET verified == JwtVerify(tok, jwtRefreshSecret, now)
           found    == ActiveByRefreshToken(tok)
           h == [NoHist EXCEPT
                   !.reused = tok \in accepted,
                   !.valid = verified = "ok",
                   !.cred = IF found = {} THEN "noSession" ELSE "session",
                   !.live = IF found = {} THEN NoIdentity
                            ELSE SelectIdentity(users[sessions[CHOOSE s \in found : TRUE].userId])]
       IN
       IF tok = NoToken
       THEN /\ Respond(p, Resp("refresh", tok, 400, "MISSING_REFRESH_TOKEN"))
            /\ hist' = [hist EXCEPT ![p] = NoHist]
       ELSE IF verified # "ok"
       THEN /\ Respond(p, [Resp("refresh", tok,
                 IF IsJsonWebTokenError(verified) THEN 401 ELSE 500,
                 "INVALID_REFRESH_TOKEN")
                   EXCEPT !.h = h,
                          !.events =
                 IF IsJsonWebTokenError(verified)
                 THEN <<logSecurityEvent("Invalid refresh token format", "medium")>>
                 ELSE <<>>])
            /\ hist' = [hist EXCEPT ![p] = NoHist]
       ELSE IF found = {}
       THEN /\ Respond(p, [Resp("refresh", tok, 401, "INVALID_REFRESH_TOKEN")
                             EXCEPT !.h = h,
                                    !.events = <<logSecurityEvent("Invalid refresh token used", "high")>>])
            /\ hist' = [hist EXCEPT ![p] = NoHist]
       ELSE \E s \in found :
            /\ pc' = [pc EXCEPT ![p] = "refresh_update"]
            /\ loc' = [loc EXCEPT ![p] =
                 [NoLoc EXCEPT !.op = "refresh", !.tok = tok, !.sid = s,
                               !.reqUser = SelectIdentity(users[sessions[s].userId])]]
            /\ hist' = [q \in Procs |->
                 IF q = p
                 THEN [h EXCEPT !.conc = InFlightRefresh(tok)]
                 ELSE IF q \in InFlightRefresh(tok)
                 THEN [hist[q] EXCEPT !.conc = @ \cup {p}]
                 ELSE hist[q]]
            /\ last' = NoResp
    /\ UNCHANGED <<users, sessions, now, ticks, changes, issued,
                   accFor, refFor, accepted, pwRevoked, rlVars, extVars>>

(* A rotation that also sets the session active *)
RotateSession_reactivate(sess, tokens, t) ==
    [sess EXCEPT !.token = tokens.accessToken,
                 !.refreshToken = tokens.refreshToken,
                 !.expiresAt = t + SessionTTLMs,
                 !.isActive = TRUE]

(* data of prisma.userSession.update({ where: { id: session.id } }) *)
RotateSession(sess, tokens, t) ==
    [sess EXCEPT !.token = tokens.accessToken,
                 !.refreshToken = tokens.refreshToken,
                 !.expiresAt = t + SessionTTLMs]

(* The request of p is over: it leaves the peers' sets, and tells them when *)
(* it was answered 200 with a pair other than the one presented.           *)
HistAfterRefresh(p, ok) ==
    [q \in Procs |->
       IF q = p THEN NoHist
       ELSE IF p \in hist[q].conc
       THEN [hist[q] EXCEPT !.conc = @ \ {p}, !.peerOk = @ \/ ok]
       ELSE hist[q]]

(* The status of the refresh token's payload *)
SessionUserStatus_fromToken(tok, user) == tok.subscriptionStatus

(* session.user.subscriptionStatus: the account joined in by the lookup *)
SessionUserStatus(tok, user) == user.subscriptionStatus

(* The status check on the joined user, generateTokens(session.user), the  *)
(* update of the session found by id, 200 with the new pair                *)
RefreshUpdate(p) ==
    /\ pc[p] = "refresh_update"
    /\ LET s      == loc[p].sid
           tokens == generateTokens(loc[p].reqUser, now)
           h      == [hist[p] EXCEPT !.pwRev = loc[p].tok \in pwRevoked]
       IN
       IF SessionUserStatus(loc[p].tok, loc[p].reqUser) # "ACTIVE"
       THEN /\ Respond(p, [Resp("refresh", loc[p].tok, 403, "ACCOUNT_INACTIVE")
                             EXCEPT !.h = h])
            /\ hist' = HistAfterRefresh(p, FALSE)
            /\ UNCHANGED <<sessions, issued, accFor, refFor, accepted>>
       ELSE IF TokenTaken(tokens.accessToken, s)
       THEN /\ Respond(p, [Resp("refresh", loc[p].tok,
                                handlePrismaError("P2002").status,
                                handlePrismaError("P2002").msg)
                             EXCEPT !.h = h])
            /\ hist' = HistAfterRefresh(p, FALSE)
            /\ UNCHANGED <<sessions, issued, accFor, refFor, accepted>>
       ELSE /\ sessions' = [sessions EXCEPT ![s] = RotateSession(@, tokens, now)]
            /\ accFor' = [accFor EXCEPT ![s] = @ \cup {tokens.accessToken}]
            /\ refFor' = [refFor EXCEPT ![s] = @ \cup {tokens.refreshToken}]
            /\ issued' = issued \cup {tokens.accessToken, tokens.refreshToken}
            /\ accepted' = accepted \cup {loc[p].tok}
            /\ Respond(p, [Resp("refresh", loc[p].tok, 200,
                                "Tokens refreshed successfully")
                             EXCEPT !.tokens = tokens, !.h = h])
            /\ hist' = HistAfterRefresh(p, tokens.refreshToken # loc[p].tok)
    /\ UNCHANGED <<users, now, ticks, changes, pwRevoked, rlVars, extVars>>

----------------------------------------------------------------------------
(* authMiddleware *)

AuthRoutes == {"me", "logout", "logout-all", "change-password"}

(* The status taken from the token's payload *)
AccountStatus_fromToken(tok, user) == tok.subscriptionStatus

(* if (user.subscriptionStatus !== 'ACTIVE'): the status of the record read *)
AccountStatus(tok, user) == user.subscriptionStatus

(* The identity taken from the token's payload *)
AttachedUser_fromToken(tok, user) ==
    [id |-> tok.userId, email |-> tok.email, role |-> tok.role,
     subscriptionPlan |-> tok.subscriptionPlan,
     subscriptionStatus |-> tok.subscriptionStatus]

(* req.user = user: the record read, as selected *)
AttachedUser(tok, user) == SelectIdentity(user)

(* A verification that also wants an active session holding the token *)
VerifyAccess_sessionBound(tok) ==
    IF \E s \in SessionIds : sessions[s].token = tok /\ sessions[s].isActive
    THEN JwtVerify(tok, jwtSecret, now)
    ELSE "JsonWebTokenError"

(* jwt.verify(token, config.jwt.secret) *)
VerifyAccess(tok) == JwtVerify(tok, jwtSecret, now)

(* The decision authMiddleware takes on the bearer token and the account   *)
(* it reads: an error response, or status 0 (next) with req.user           *)
(* error instanceof jwt.TokenExpiredError *)
IsTokenExpiredError(err) == err = "TokenExpiredError"

(* A catch block that lets the request through on an unclassified error *)
authCatch_passOn(err) ==
    IF IsJsonWebTokenError(err)
    THEN [status |-> 401, msg |-> "Invalid access token", user |-> NoIdentity,
          events |-> <<logSecurityEvent("Invalid JWT token", "medium")>>]
    ELSE [status |-> 200, msg |-> "next", user |-> NoIdentity, events |-> <<>>]

(* The catch block of authMiddleware: the instanceof tests in source order *)
authCatch(err) ==
    IF IsJsonWebTokenError(err)
    THEN [status |-> 401, msg |-> "Invalid access token", user |-> NoIdentity,
          events |-> <<logSecurityEvent("Invalid JWT token", "medium")>>]
    ELSE IF IsTokenExpiredError(err)
    THEN [status |-> 401, msg |-> "Access token has expired", user |-> NoIdentity,
          events |-> <<logSecurityEvent("Expired JWT token", "low")>>]
    ELSE [status |-> 500, msg |-> "Authentication failed", user |-> NoIdentity,
          events |-> <<>>]

authMiddleware(tok) ==
    IF tok = NoToken
    THEN [status |-> 401, msg |-> "Access token is required", user |-> NoIdentity,
          events |-> <<logSecurityEvent("Missing or invalid authorization header", "low")>>]
    ELSE IF VerifyAccess(tok) # "ok"
    THEN authCatch(VerifyAccess(tok))
    ELSE IF FindUserById(tok.userId) = NoUser
    THEN [status |-> 401, msg |-> "User not found", user |-> NoIdentity,
          events |-> <<logSecurityEvent("Token valid but user not found", "medium")>>]
    ELSE IF AccountStatus(tok, FindUserById(tok.userId)) # "ACTIVE"
    THEN [status |-> 403, msg |-> "Account is not active", user |-> NoIdentity,
          events |-> <<logSecurityEvent("User with inactive subscription attempted access", "low")>>]
    ELSE [status |-> 0, msg |-> "next",
          user |-> AttachedUser(tok, FindUserById(tok.userId)), events |-> <<>>]

(* The sessions an access token was issued for *)
SessionsOf(tok) == {s \in SessionIds : tok \in accFor[s]}

(* A request to a route behind authMiddleware arrives: the header check,   *)
(* jwt.verify, findUnique and the status check                             *)
AuthVerify(p, route, tok, cur, new) ==
    /\ pc[p] = "idle"
    /\ LET d == authMiddleware(tok)
           h == [NoHist EXCEPT
                   !.valid = JwtVerify(tok, jwtSecret, now) = "ok",
                   !.live = SelectIdentity(FindUserById(tok.userId)),
                   !.revoked = \E s \in SessionsOf(tok) : ~sessions[s].isActive]
       IN
       IF d.status # 0
       THEN /\ Respond(p, [Resp(route, tok, d.status, d.msg)
                             EXCEPT !.h = h, !.by = "authMiddleware",
                                    !.events = d.events])
            /\ hist' = [hist EXCEPT ![p] = NoHist]
       ELSE /\ pc' = [pc EXCEPT ![p] = "auth_lastLogin"]
            /\ loc' = [loc EXCEPT ![p] =
                 [NoLoc EXCEPT !.op = route, !.tok = tok, !.reqUser = d.user,
                               !.currentPassword = cur, !.newPassword = new,
                               !.events = d.events]]
            /\ hist' = [hist EXCEPT ![p] = h]
            /\ last' = NoResp
    /\ UNCHANGED <<users, sessions, now, ticks, changes, issued,
                   accFor, refFor, accepted, pwRevoked, rlVars, extVars>>

RouteEntry(route) ==
    CASE route = "me"              -> "me_find"
      [] route = "logout"          -> "logout_update"
      [] route = "logout-all"      -> "logoutAll_update"
      [] route = "change-password" -> "changePassword_find"
      [] route = "create-site"     -> "site_count"
      [] route = "duplicate-site"  -> "dup_count"

(* prisma.user.update({ lastLogin }), req.user = user, next() *)
AuthLastLogin(p, written) ==
    /\ pc[p] = "auth_lastLogin"
    /\ IF written
       THEN /\ users' = [users EXCEPT ![loc[p].reqUser.id].lastLogin = now]
            /\ pc' = [pc EXCEPT ![p] = RouteEntry(loc[p].op)]
            /\ last' = NoResp
            /\ UNCHANGED <<loc, hist>>
       ELSE /\ Respond(p, [Resp(loc[p].op, loc[p].tok,
                                authCatch("PrismaClientUnknownRequestError").status,
                                authCatch("PrismaClientUnknownRequestError").msg)
                             EXCEPT !.h = [hist[p] EXCEPT !.fault = TRUE],
                                    !.by = "authMiddleware",
                                    !.events = authCatch("PrismaClientUnknownRequestError").events])
            /\ hist' = [hist EXCEPT ![p] = NoHist]
            /\ UNCHANGED users
    /\ UNCHANGED <<sessions, now, ticks, changes, issued, accFor, refFor,
                   accepted, pwRevoked, rlVars, extVars>>

(* GET /me *)
MeFind(p) ==
    /\ pc[p] = "me_find"
    /\ IF FindUserById(loc[p].reqUser.id) = NoUser
       THEN Respond(p, [Resp("me", loc[p].tok, 404, "USER_NOT_FOUND")
                          EXCEPT !.h = hist[p]])
       ELSE Respond(p, [Resp("me", loc[p].tok, 200, "user")
                          EXCEPT !.user = loc[p].reqUser, !.h = hist[p]])
    /\ hist' = [hist EXCEPT ![p] = NoHist]
    /\ UNCHANGED <<users, sessions, now, ticks, changes, issued,
                   accFor, refFor, accepted, pwRevoked, rlVars, extVars>>

----------------------------------------------------------------------------
(* POST /logout, /logout-all, /change-password *)

(* The flag flipped instead of cleared *)
Revoked_toggle(sess) == [sess EXCEPT !.isActive = ~@]

(* data: { isActive: false } *)
Revoked(sess) == [sess EXCEPT !.isActive = FALSE]

(* prisma.userSession.updateMany({ where, data }) *)
Deactivate(matched) ==
    [s \in SessionIds |-> IF s \in matched THEN Revoked(sessions[s]) ELSE sessions[s]]

LogoutWhere(p, s) ==
    sessions[s].token = loc[p].tok /\ sessions[s].userId = loc[p].reqUser.id

LogoutUpdate(p) ==
    /\ pc[p] = "logout_update"
    /\ sessions' = Deactivate({s \in SessionIds : LogoutWhere(p, s)})
    /\ Respond(p, [Resp("logout", loc[p].tok, 200, "Logout successful")
                     EXCEPT !.user = loc[p].reqUser, !.h = hist[p]])
    /\ hist' = [hist EXCEPT ![p] = NoHist]
    /\ UNCHANGED <<users, now, ticks, changes, issued,
                   accFor, refFor, accepted, pwRevoked, rlVars, extVars>>

LogoutAllWhere(p, s) ==
    sessions[s].userId = loc[p].reqUser.id /\ sessions[s].isActive

LogoutAllUpdate(p) ==
    /\ pc[p] = "logoutAll_update"
    /\ sessions' = Deactivate({s \in SessionIds : LogoutAllWhere(p, s)})
    /\ Respond(p, [Resp("logout-all", loc[p].tok, 200,
                        "Logged out from all devices successfully")
                     EXCEPT !.user = loc[p].reqUser, !.h = hist[p]])
    /\ hist' = [hist EXCEPT ![p] = NoHist]
    /\ UNCHANGED <<users, now, ticks, changes, issued,
                   accFor, refFor, accepted, pwRevoked, rlVars, extVars>>

(* findUnique({ where: { id: req.user.id } }), verifyPassword(currentPassword) *)
ChangePasswordFind(p) ==
    /\ pc[p] = "changePassword_find"
    /\ LET user == FindUserById(loc[p].reqUser.id) IN
       IF user = NoUser
       THEN /\ Respond(p, [Resp("change-password", loc[p].tok, 404, "USER_NOT_FOUND")
                             EXCEPT !.h = hist[p]])
            /\ hist' = [hist EXCEPT ![p] = NoHist]
       ELSE IF ~verifyPassword(loc[p].currentPassword, user.passwordHash)
       THEN /\ Respond(p, [Resp("change-password", loc[p].tok, 400,
                                "INVALID_CURRENT_PASSWORD")
                             EXCEPT !.h = hist[p],
                                    !.events = <<logSecurityEvent(
                 "Invalid current password in change password attempt", "medium")>>])
            /\ hist' = [hist EXCEPT ![p] = NoHist]
       ELSE /\ pc' = [pc EXCEPT ![p] = "changePassword_update"]
            /\ loc' = [loc EXCEPT ![p].user = user]
            /\ last' = NoResp
            /\ UNCHANGED hist
    /\ UNCHANGED <<users, sessions, now, ticks, changes, issued,
                   accFor, refFor, accepted, pwRevoked, rlVars, extVars>>

(* prisma.user.update({ passwordHash: newPasswordHash }) *)
ChangePasswordUpdate(p) ==
    /\ pc[p] = "changePassword_update"
    /\ users' = [users EXCEPT ![loc[p].user.id].passwordHash =
                                hashPassword(loc[p].newPassword)]
    /\ pc' = [pc EXCEPT ![p] = "changePassword_revoke"]
    /\ last' = NoResp
    /\ UNCHANGED <<sessions, now, ticks, changes, loc, issued, ghostVars, rlVars, extVars>>

(* where: { userId, isActive: true, token: { not: currentToken } } *)
ChangePasswordWhere(p, s) ==
    /\ sessions[s].userId = loc[p].user.id
    /\ sessions[s].isActive
    /\ sessions[s].token # loc[p].tok

ChangePasswordRevoke(p) ==
    /\ pc[p] = "changePassword_revoke"
    /\ sessions' = Deactivate({s \in SessionIds : ChangePasswordWhere(p, s)})
    /\ pwRevoked' = pwRevoked \cup
         UNION {refFor[s] : s \in {x \in SessionIds :
                                     /\ sessions[x].userId = loc[p].user.id
                                     /\ x \notin SessionsOf(loc[p].tok)}}
    /\ Respond(p, [Resp("change-password", loc[p].tok, 200,
                        "Password changed successfully")
                     EXCEPT !.user = loc[p].reqUser, !.h = hist[p]])
    /\ hist' = [hist EXCEPT ![p] = NoHist]
    /\ UNCHANGED <<users, now, ticks, changes, issued,
                   accFor, refFor, accepted, rlVars, extVars>>

----------------------------------------------------------------------------
(* A handler cut off between two of its storage writes: the second write   *)
(* rejects, or the process stops; asyncHandler passes the error to         *)
(* errorHandler, which answers 500. Nothing written before is undone: the  *)
(* routes use no transaction.                                              *)
BetweenWrites == {"register_session", "login_lastLogin", "changePassword_revoke"}

CutOff(p) ==
    /\ pc[p] \in BetweenWrites
    /\ Respond(p, [Resp(loc[p].op, loc[p].tok, 500, "INTERNAL_ERROR")
                     EXCEPT !.h = [hist[p] EXCEPT !.fault = TRUE]])
    /\ hist' = [hist EXCEPT ![p] = NoHist]
    /\ UNCHANGED <<users, sessions, now, ticks, changes, issued,
                   accFor, refFor, accepted, pwRevoked, rlVars, extVars>>

----------------------------------------------------------------------------
(* optionalAuthMiddleware *)

(* An account of any status is attached *)
OptionalAttach_anyStatus(user) == user # NoUser

(* if (user && user.subscriptionStatus === 'ACTIVE') req.user = user *)
OptionalAttach(user) == user # NoUser /\ user.subscriptionStatus = "ACTIVE"

(* The identity attached and the calls made on res and next, in order;     *)
(* readable is whether prisma.user.findUnique answers. Every throw inside  *)
(* the try block lands in the catch block, which calls next().             *)
optionalAuthMiddleware(tok, readable) ==
    IF tok = NoToken
    THEN [user |-> NoIdentity, calls |-> <<"next">>]
    ELSE IF VerifyAccess(tok) # "ok"
    THEN [user |-> NoIdentity, calls |-> <<"next">>]
    ELSE IF ~readable
    THEN [user |-> NoIdentity, calls |-> <<"next">>]
    ELSE IF OptionalAttach(FindUserById(tok.userId))
    THEN [user |-> SelectIdentity(FindUserById(tok.userId)), calls |-> <<"next">>]
    ELSE [user |-> NoIdentity, calls |-> <<"next">>]

(* One request through optionalAuthMiddleware *)
OptionalAuth(p, tok, readable) ==
    /\ pc[p] = "idle"
    /\ LET d == optionalAuthMiddleware(tok, readable)
           h == [NoHist EXCEPT
                   !.valid = JwtVerify(tok, jwtSecret, now) = "ok",
                   !.live = SelectIdentity(FindUserById(tok.userId)),
                   !.fault = ~readable]
       IN Respond(p, [Resp("optional", tok, 0, "next")
                        EXCEPT !.user = d.user, !.h = h, !.calls = d.calls,
                               !.by = "optionalAuthMiddleware"])
    /\ UNCHANGED <<users, sessions, now, ticks, changes, issued, ghostVars,
                   rlVars, extVars>>

----------------------------------------------------------------------------
(* The account record is also written from outside these routes (billing,  *)
(* administration): role, plan and status are columns of table users.      *)
AccountChange(u, role, plan, status) ==
    /\ changes < MaxChanges
    /\ u \in UserIds
    /\ users[u].role # role \/ users[u].subscriptionPlan # plan
         \/ users[u].subscriptionStatus # status
    /\ users' = [users EXCEPT ![u].role = role,
                              ![u].subscriptionPlan = plan,
                              ![u].subscriptionStatus = status]
    /\ changes' = changes + 1
    /\ last' = NoResp
    /\ UNCHANGED <<sessions, now, ticks, pc, loc, issued, ghostVars, rlVars, extVars>>

----------------------------------------------------------------------------
(* apiKeyAuth *)

NoKey == [userId |-> 0, key |-> "", lastUsed |-> -1, expiresAt |-> -1,
          isActive |-> FALSE]

KeyIds == 1..Len(apiKeys)

(* The x-api-key header of a request: none, a key that was never issued,   *)
(* a key of the table                                                      *)
KeyValue(k) == <<"k1", "k2", "k3", "k4">>[k]
PresentableKeys == {"", "unknown"} \cup {KeyValue(k) : k \in 1..MaxKeys}

(* prisma.apiKey.findUnique({ where: { key }, include: { user } }) *)
FindKey(apiKey) ==
    IF \E k \in KeyIds : apiKeys[k].key = apiKey
    THEN CHOOSE k \in KeyIds : apiKeys[k].key = apiKey
    ELSE 0

(* A key accepted whether active or not *)
KeyRejected_ignoreActive(k) == k = 0

(* if (!keyRecord || !keyRecord.isActive) *)
KeyRejected(k) == k = 0 \/ ~apiKeys[k].isActive

(* if (keyRecord.expiresAt && keyRecord.expiresAt < new Date()) *)
KeyExpired(k) == apiKeys[k].expiresAt # -1 /\ apiKeys[k].expiresAt < now

(* The decision apiKeyAuth takes before it writes last_used: an error      *)
(* response, or status 0 with the owning account                           *)
apiKeyAuth(apiKey) ==
    LET k == FindKey(apiKey) IN
    IF apiKey = ""
    THEN [status |-> 401, msg |-> "API key is required", user |-> NoIdentity,
          events |-> <<>>]
    ELSE IF KeyRejected(k)
    THEN [status |-> 401, msg |-> "Invalid API key", user |-> NoIdentity,
          events |-> <<logSecurityEvent("Invalid API key used", "high")>>]
    ELSE IF KeyExpired(k)
    THEN [status |-> 401, msg |-> "API key has expired", user |-> NoIdentity,
          events |-> <<>>]
    ELSE IF users[apiKeys[k].userId].subscriptionStatus # "ACTIVE"
    THEN [status |-> 403, msg |-> "Account is not active", user |-> NoIdentity,
          events |-> <<>>]
    ELSE [status |-> 0, msg |-> "next",
          user |-> SelectIdentity(users[apiKeys[k].userId]), events |-> <<>>]

(* What holds of the header when the request arrives: no header, no such   *)
(* key, a key switched off, a key past its expiry, a usable key            *)
KeyState(apiKey) ==
    IF apiKey = "" THEN "missing"
    ELSE IF \A k \in KeyIds : apiKeys[k].key # apiKey THEN "unknown"
    ELSE IF \E k \in KeyIds : apiKeys[k].key = apiKey /\ ~apiKeys[k].isActive
    THEN "inactive"
    ELSE IF \E k \in KeyIds : /\ apiKeys[k].key = apiKey
                               /\ apiKeys[k].expiresAt # -1
                               /\ now > apiKeys[k].expiresAt
    THEN "expired"
    ELSE "usable"

KeyOwner(apiKey) ==
    IF FindKey(apiKey) = 0 THEN NoIdentity
    ELSE SelectIdentity(users[apiKeys[FindKey(apiKey)].userId])

(* A request with an x-api-key header arrives: the header check, the       *)
(* lookup, the checks on the key and on its account                        *)
ApiKeyFind(p, apiKey) ==
    /\ pc[p] = "idle"
    /\ LET d == apiKeyAuth(apiKey)
           h == [NoHist EXCEPT !.cred = KeyState(apiKey),
                               !.live = KeyOwner(apiKey)]
       IN
       IF d.status # 0
       THEN /\ Respond(p, [Resp("apiKey", NoToken, d.status, d.msg)
                             EXCEPT !.h = h, !.by = "apiKeyAuth",
                                    !.events = d.events])
            /\ hist' = [hist EXCEPT ![p] = NoHist]
       ELSE /\ pc' = [pc EXCEPT ![p] = "apiKey_lastUsed"]
            /\ loc' = [loc EXCEPT ![p] =
                 [NoLoc EXCEPT !.op = "apiKey", !.sid = FindKey(apiKey),
                               !.reqUser = d.user, !.events = d.events]]
            /\ hist' = [hist EXCEPT ![p] = h]
            /\ last' = NoResp
    /\ UNCHANGED <<users, sessions, now, ticks, changes, issued,
                   accFor, refFor, accepted, pwRevoked, rlVars, extVars>>

(* prisma.apiKey.update({ lastUsed }), req.user = keyRecord.user, next();  *)
(* a write that fails is caught: 500 'Authentication failed'               *)
ApiKeyLastUsed(p, written) ==
    /\ pc[p] = "apiKey_lastUsed"
    /\ IF written
       THEN /\ apiKeys' = [apiKeys EXCEPT ![loc[p].sid].lastUsed = now]
            /\ Respond(p, [Resp("apiKey", NoToken, 0, "next")
                             EXCEPT !.user = loc[p].reqUser, !.h = hist[p],
                                    !.by = "apiKeyAuth",
                                    !.events = loc[p].events])
       ELSE /\ UNCHANGED apiKeys
            /\ Respond(p, [Resp("apiKey", NoToken, 500, "Authentication failed")
                             EXCEPT !.h = [hist[p] EXCEPT !.fault = TRUE],
                                    !.by = "apiKeyAuth",
                                    !.events = loc[p].events])
    /\ hist' = [hist EXCEPT ![p] = NoHist]
    /\ UNCHANGED <<users, sessions, now, ticks, changes, issued,
                   accFor, refFor, accepted, pwRevoked, rlVars, env,
                   siteVars>>

(* API keys are issued and switched off outside these routes: a row of     *)
(* api_keys is added for an account, with or without an expiry, or its     *)
(* is_active is cleared.                                                   *)
KeyIssue(u, expiresAt) ==
    /\ Len(apiKeys) < MaxKeys
    /\ apiKeys' = Append(apiKeys,
         [userId |-> u, key |-> KeyValue(Len(apiKeys) + 1), lastUsed |-> -1,
          expiresAt |-> expiresAt, isActive |-> TRUE])
    /\ last' = NoResp
    /\ UNCHANGED <<authVars_noLast, now, ticks, rlVars, env, siteVars>>

KeyRevoke(k) ==
    /\ apiKeys[k].isActive
    /\ apiKeys' = [apiKeys EXCEPT ![k].isActive = FALSE]
    /\ last' = NoResp
    /\ UNCHANGED <<authVars_noLast, now, ticks, rlVars, env, siteVars>>

(* The state right after the first account has registered at time 0: the   *)
(* account, its first session and the pair the 201 response carried.       *)
FirstUser == NewUser(1, "a@x.com", "Aa1!aaaa")

RegisteredAt0 ==
    /\ users = <<FirstUser>>
    /\ sessions = <<NewSession(1, generateTokens(FirstUser, 0), 0)>>
    /\ now = 0
    /\ ticks = 0
    /\ changes = 0
    /\ pc = [p \in Procs |-> "idle"]
    /\ loc = [p \in Procs |-> NoLoc]
    /\ last = [Resp("register", NoToken, 201, "User registered successfully")
                 EXCEPT !.tokens = generateTokens(FirstUser, 0),
                        !.user = SelectIdentity(FirstUser), !.p = "p1"]
    /\ issued = {generateTokens(FirstUser, 0).accessToken,
                 generateTokens(FirstUser, 0).refreshToken}
    /\ accFor = <<{generateTokens(FirstUser, 0).accessToken}>>
    /\ refFor = <<{generateTokens(FirstUser, 0).refreshToken}>>
    /\ accepted = {}
    /\ pwRevoked = {}
    /\ hist = [p \in Procs |-> NoHist]

InitRegistered ==
    /\ env = DefaultEnv
    /\ sites = <<>>
    /\ pages = {}
    /\ apiKeys = <<>>
    /\ RegisteredAt0
    /\ RateLimitInit({5}, {60000})

(* What a client can send as a token: nothing, something forged, or any    *)
(* token a response has carried                                            *)
Presentable == issued \cup {NoToken, ForgedToken}

----------------------------------------------------------------------------
(* The requests, by route; P is the set of processes that send them, J the *)
(* steps of the clock.                                                     *)

Clock(J) == \E d \in J : Tick(d)

Login(P) ==
    \/ \E p \in P, e \in Emails, w \in Passwords : LoginFind(p, e, w)
    \/ \E p \in P : LoginSession(p)
    \/ \E p \in P : LoginLastLogin(p)

Refresh(P) ==
    \/ \E p \in P, tok \in Presentable : RefreshFind(p, tok)
    \/ \E p \in P : RefreshUpdate(p)

Me(P) ==
    \/ \E p \in P, tok \in Presentable : AuthVerify(p, "me", tok, "", "")
    \/ \E p \in P : MeFind(p)

Logout(P) ==
    \/ \E p \in P, tok \in Presentable : AuthVerify(p, "logout", tok, "", "")
    \/ \E p \in P : LogoutUpdate(p)

LogoutAll(P) ==
    \/ \E p \in P, tok \in Presentable : AuthVerify(p, "logout-all", tok, "", "")
    \/ \E p \in P : LogoutAllUpdate(p)

ChangePassword(P) ==
    \/ \E p \in P, tok \in Presentable, cur \in Passwords, new \in Passwords :
          AuthVerify(p, "change-password", tok, cur, new)
    \/ \E p \in P : ChangePasswordFind(p)
    \/ \E p \in P : ChangePasswordUpdate(p)
    \/ \E p \in P : ChangePasswordRevoke(p)

Authenticated(P) == \E p \in P : AuthLastLogin(p, TRUE)

(* One column of the account changes at a time. *)
AccountChanges ==
    \E u \in UserIds, r \in Roles, pl \in Plans, st \in Statuses :
       /\ (IF users[u].role = r THEN 0 ELSE 1)
            + (IF users[u].subscriptionPlan = pl THEN 0 ELSE 1)
            + (IF users[u].subscriptionStatus = st THEN 0 ELSE 1) = 1
       /\ AccountChange(u, r, pl, st)

(* Rotation and logout of the sessions of one account, any two requests    *)
(* at a time                                                               *)
NextRotate ==
    \/ Clock({Millisecond, NextSecond, SessionLife1})
    \/ Refresh(Procs)
    \/ Logout(Procs)
    \/ Authenticated(Procs)

SpecRotate == InitRegistered /\ [][NextRotate]_vars

(* A second device logs in; a password change with a rotation in flight *)
NextPassword ==
    \/ Clock({NextSecond})
    \/ Login({"p1"})
    \/ ChangePassword({"p1"})
    \/ Authenticated({"p1"})
    \/ Refresh({"p2"})

SpecPassword == InitRegistered /\ [][NextPassword]_vars

(* Verification while the account record changes *)
NextVerify ==
    \/ Clock({NextSecond, AccessLife})
    \/ Refresh({"p1"})
    \/ Me({"p1"})
    \/ Authenticated({"p1"})
    \/ AccountChanges

SpecVerify == InitRegistered /\ [][NextVerify]_vars

(* Every way a session is revoked by one device, while another device     *)
(* goes through the verification                                           *)
NextRevoke ==
    \/ Clock({AccessLife})
    \/ Login({"p1"})
    \/ Logout({"p1"})
    \/ LogoutAll({"p1"})
    \/ ChangePassword({"p1"})
    \/ Me({"p2"})
    \/ Authenticated(Procs)

SpecRevoke == InitRegistered /\ [][NextRevoke]_vars

(* Registration from the empty database *)
Register(P) ==
    \/ \E p \in P, e \in Emails, w \in Passwords : RegisterFind(p, e, w)
    \/ \E p \in P : RegisterCreate(p)
    \/ \E p \in P : RegisterSession(p)

(* Registrations with any body a client can send *)
RegisterAny(P) ==
    \/ \E p \in P, e \in RawEmails, w \in RawPasswords : RegisterFind(p, e, w)
    \/ \E p \in P : RegisterCreate(p)
    \/ \E p \in P : RegisterSession(p)

NextRegister == Clock({NextSecond}) \/ RegisterAny(Procs) \/ Login(Procs)

SpecRegister == Init /\ [][NextRegister]_vars

(* Every route that writes a session row: a device registers, logs in and  *)
(* logs out while another rotates                                          *)
NextFrame ==
    \/ Clock({NextSecond})
    \/ Register({"p1"})
    \/ Login({"p1"})
    \/ Logout({"p1"})
    \/ Authenticated({"p1"})
    \/ Refresh({"p2"})

SpecFrame == Init /\ [][NextFrame]_vars

(* Logins with any body a client can send, while the account changes *)
LoginAny(P) ==
    \/ \E p \in P, e \in RawEmails, w \in RawPasswords : LoginFind(p, e, w)
    \/ \E p \in P : LoginSession(p)
    \/ \E p \in P : LoginLastLogin(p)

NextLogin ==
    \/ Clock({NextSecond})
    \/ LoginAny(Procs)
    \/ AccountChanges

SpecLogin == InitRegistered /\ [][NextLogin]_vars

(* Requests with an API key, while keys are issued and switched off, the   *)
(* account changes and the clock passes a key's expiry                     *)
ApiKey(P) ==
    \/ \E p \in P, apiKey \in PresentableKeys : ApiKeyFind(p, apiKey)
    \/ \E p \in P : ApiKeyLastUsed(p, TRUE)

ApiKeys ==
    \/ \E u \in UserIds, e \in {-1, NextSecond} : KeyIssue(u, e)
    \/ \E k \in KeyIds : KeyRevoke(k)

NextApiKey ==
    \/ Clock({NextSecond})
    \/ ApiKey({"p1"})
    \/ ApiKeys
    \/ AccountChanges

SpecApiKey == InitRegistered /\ [][NextApiKey]_vars

(* Every way a request is turned away: tokens that are missing, forged or  *)
(* expired, refresh tokens without a session, accounts that are not        *)
(* ACTIVE, API keys, a limiter of one request a minute, and writes of      *)
(* last_login and last_used that the storage refuses                       *)
AuthenticatedOrFailing(P) == \E p \in P, written \in BOOLEAN : AuthLastLogin(p, written)

ApiKeyOrFailing(P) ==
    \/ \E p \in P, apiKey \in PresentableKeys : ApiKeyFind(p, apiKey)
    \/ \E p \in P, written \in BOOLEAN : ApiKeyLastUsed(p, written)

FirstKey == [userId |-> 1, key |-> KeyValue(1), lastUsed |-> -1,
             expiresAt |-> -1, isActive |-> TRUE]

InitFailures ==
    /\ env = DefaultEnv
    /\ sites = <<>>
    /\ pages = {}
    /\ apiKeys = <<FirstKey>>
    /\ RegisteredAt0
    /\ RateLimitInit({1}, {60000})

(* The status column of an account changes *)
StatusChanges ==
    \E u \in UserIds, st \in Statuses :
       /\ users[u].subscriptionStatus # st
       /\ AccountChange(u, users[u].role, users[u].subscriptionPlan, st)

(* The clock passes the life of an access token, once *)
AccessTokensExpire == now = 0 /\ Tick(AccessLife)

NextFailures ==
    \/ AccessTokensExpire
    \/ Login({"p1"})
    \/ Refresh({"p1"})
    \/ Me({"p1"})
    \/ AuthenticatedOrFailing({"p1"})
    \/ ApiKeyOrFailing({"p1"})
    \/ StatusChanges
    \/ userRateLimit("u1")

SpecFailures == InitFailures /\ [][NextFailures]_vars

(* Requests through optionalAuthMiddleware with every kind of token, one   *)
(* of them signed by this server for an account that is no longer in the   *)
(* table, while the storage may fail, accounts change and tokens expire    *)
OrphanToken == JwtSign([NoUser EXCEPT !.id = Len(users) + 1], jwtSecret, AccessTTLSec, 0)

Optional(P) ==
    \E p \in P, tok \in Presentable \cup {OrphanToken}, readable \in BOOLEAN :
       OptionalAuth(p, tok, readable)

NextOptional ==
    \/ Clock({NextSecond, AccessLife})
    \/ Optional({"p1"})
    \/ Refresh({"p1"})
    \/ AccountChanges

SpecOptional == InitRegistered /\ [][NextOptional]_vars

(* Any deployment that passes the validation of its environment, the      *)
(* first account registered; tokens of either kind are presented to /me    *)
(* and to /refresh                                                         *)
InitConfig ==
    /\ env \in ValidEnvs
    /\ sites = <<>>
    /\ pages = {}
    /\ apiKeys = <<>>
    /\ RegisteredAt0
    /\ RateLimitInit({5}, {60000})

NextConfig ==
    \/ Clock({NextSecond})
    \/ Me({"p1"})
    \/ Authenticated({"p1"})
    \/ Refresh({"p1"})

SpecConfig == InitConfig /\ [][NextConfig]_vars

(* Two logins of the registered account with its password, in the same    *)
(* second or a second apart, next to the session of the registration       *)
TwoLogins(P) ==
    \/ \E p \in P : LoginFind(p, FirstUser.email, "Aa1!aaaa")
    \/ \E p \in P : LoginSessionUpTo(p, MaxSessions + 1)
    \/ \E p \in P : LoginLastLogin(p)

NextTwoLogins ==
    \/ Clock({NextSecond})
    \/ TwoLogins(Procs)
    \/ Refresh({"p1"})

SpecTwoLogins == InitRegistered /\ [][NextTwoLogins]_vars

(* One device logs in and logs out of all devices while another rotates a *)
(* session of the account                                                  *)
NextLogoutAll ==
    \/ Clock({NextSecond})
    \/ Login({"p1"})
    \/ LogoutAll({"p1"})
    \/ Authenticated({"p1"})
    \/ Refresh({"p2"})

SpecLogoutAll == InitRegistered /\ [][NextLogoutAll]_vars

(* A device registers, logs in and changes its password; any of these     *)
(* requests may be cut off between its writes                              *)
NextPartial ==
    \/ Clock({NextSecond})
    \/ Register({"p1"})
    \/ Login({"p1"})
    \/ ChangePassword({"p1"})
    \/ Authenticated({"p1"})
    \/ CutOff("p1")

SpecPartial == Init /\ [][NextPartial]_vars

(* POST /api/sites and POST /api/sites/:id/duplicate, behind authMiddleware *)

SiteIds    == 1..Len(sites)
SiteTexts  == {"a", "b"}
SiteNames  == {[text |-> t, copies |-> 0] : t \in SiteTexts}

(* const siteLimits = { BASIC: 1, PREMIUM: 5, ENTERPRISE: -1 } *)
siteLimits(plan) ==
    CASE plan = "BASIC"      -> 1
      [] plan = "PREMIUM"    -> 5
      [] plan = "ENTERPRISE" -> 0 - 1

(* prisma.site.count({ where: { userId } }) *)
SiteCount(userId) == Cardinality({i \in SiteIds : sites[i].userId = userId})

(* if (limit !== -1 && userSitesCount >= limit) *)
SiteLimitExceeded(plan, count) ==
    siteLimits(plan) # 0 - 1 /\ count >= siteLimits(plan)

(* The slug of a name, before any counter *)
BaseSlug(name) == [text |-> name.text, copies |-> name.copies, counter |-> 0]

(* `${originalSite.name} Copy` *)
CopyName(name) == [name EXCEPT !.copies = @ + 1]

(* generateSlug(name, userId): the base slug, then base-1, base-2, ... *)
(* until the account has no site with it; the lookups of the loop are      *)
(* taken together                                                          *)
generateSlug(name, userId) ==
    LET taken(k) == \E i \in SiteIds :
                       /\ sites[i].userId = userId
                       /\ sites[i].slug = [BaseSlug(name) EXCEPT !.counter = k]
        k0 == CHOOSE k \in 0..Len(sites) :
                 ~taken(k) /\ \A j \in 0..(k - 1) : taken(j)
    IN [BaseSlug(name) EXCEPT !.counter = k0]

(* sites_slug_key *)
SlugTaken(slug) == \E i \in SiteIds : sites[i].slug = slug

(* prisma.site.create: the row, with the plan the account has at that      *)
(* moment kept next to it (planAt is not a column)                         *)
NewSite(userId, name, slug) ==
    [id |-> Len(sites) + 1, userId |-> userId, name |-> name, slug |-> slug,
     planAt |-> users[userId].subscriptionPlan]

DefaultPages == {"home", "about", "contact"}

(* The route ends with an error response *)
SiteError(p, status, msg) ==
    /\ Respond(p, [Resp(loc[p].op, loc[p].tok, status, msg) EXCEPT !.h = hist[p]])
    /\ hist' = [hist EXCEPT ![p] = NoHist]

(* prisma.site.count and the test against the limit of req.user's plan;    *)
(* name and slug are the body of the request                               *)
CreateSiteCount(p, name, slug) ==
    /\ pc[p] = "site_count"
    /\ IF SiteLimitExceeded(loc[p].reqUser.subscriptionPlan,
                            SiteCount(loc[p].reqUser.id))
       THEN SiteError(p, 403, "SITE_LIMIT_EXCEEDED")
       ELSE /\ pc' = [pc EXCEPT ![p] = "site_slug"]
            /\ loc' = [loc EXCEPT ![p].count = SiteCount(loc[p].reqUser.id),
                                  ![p].name = name, ![p].slug = slug]
            /\ last' = NoResp
            /\ UNCHANGED hist
    /\ UNCHANGED <<users, sessions, now, ticks, changes, issued,
                   accFor, refFor, accepted, pwRevoked, rlVars, extVars>>

(* prisma.site.findUnique({ where: { slug } }) *)
CreateSiteSlug(p) ==
    /\ pc[p] = "site_slug"
    /\ IF SlugTaken(loc[p].slug)
       THEN SiteError(p, 409, "SLUG_TAKEN")
       ELSE /\ pc' = [pc EXCEPT ![p] = "site_create"]
            /\ last' = NoResp
            /\ UNCHANGED <<loc, hist>>
    /\ UNCHANGED <<users, sessions, now, ticks, changes, issued,
                   accFor, refFor, accepted, pwRevoked, rlVars, extVars>>

(* prisma.site.create *)
SiteCreate(p, next) ==
    /\ Len(sites) < MaxSites
    /\ IF SlugTaken(loc[p].slug)
       THEN /\ SiteError(p, handlePrismaError("P2002").status,
                            handlePrismaError("P2002").msg)
            /\ UNCHANGED sites
       ELSE /\ sites' = Append(sites, NewSite(loc[p].reqUser.id, loc[p].name,
                                              loc[p].slug))
            /\ pc' = [pc EXCEPT ![p] = next]
            /\ loc' = [loc EXCEPT ![p].site = Len(sites) + 1]
            /\ last' = NoResp
            /\ UNCHANGED hist
    /\ UNCHANGED <<users, sessions, now, ticks, changes, issued,
                   accFor, refFor, accepted, pwRevoked, rlVars, apiKeys, env,
                   pages>>

CreateSiteCreate(p) ==
    /\ pc[p] = "site_create"
    /\ SiteCreate(p, "site_pages")

(* Promise.all(pages.map(page => prisma.page.create(...))) and the 201 *)
SitePages(p, slugs, msg) ==
    /\ pages' = pages \cup {[siteId |-> loc[p].site, slug |-> g] : g \in slugs}
    /\ Respond(p, [Resp(loc[p].op, loc[p].tok, 201, msg) EXCEPT !.h = hist[p]])
    /\ hist' = [hist EXCEPT ![p] = NoHist]
    /\ UNCHANGED <<users, sessions, now, ticks, changes, issued,
                   accFor, refFor, accepted, pwRevoked, rlVars, apiKeys, env,
                   sites>>

CreateSitePages(p) ==
    /\ pc[p] = "site_pages"
    /\ SitePages(p, DefaultPages, "Site created successfully")

(* The count and the limit test of the duplicate route; id is params.id *)
DuplicateCount(p, id) ==
    /\ pc[p] = "dup_count"
    /\ IF SiteLimitExceeded(loc[p].reqUser.subscriptionPlan,
                            SiteCount(loc[p].reqUser.id))
       THEN SiteError(p, 403, "SITE_LIMIT_EXCEEDED")
       ELSE /\ pc' = [pc EXCEPT ![p] = "dup_find"]
            /\ loc' = [loc EXCEPT ![p].count = SiteCount(loc[p].reqUser.id),
                                  ![p].site = id]
            /\ last' = NoResp
            /\ UNCHANGED hist
    /\ UNCHANGED <<users, sessions, now, ticks, changes, issued,
                   accFor, refFor, accepted, pwRevoked, rlVars, extVars>>

(* prisma.site.findFirst({ where: { id, userId }, include: { pages } }) *)
DuplicateFind(p) ==
    /\ pc[p] = "dup_find"
    /\ IF loc[p].site \in SiteIds /\ sites[loc[p].site].userId = loc[p].reqUser.id
       THEN /\ pc' = [pc EXCEPT ![p] = "dup_slug"]
            /\ loc' = [loc EXCEPT
                        ![p].name = CopyName(sites[loc[p].site].name),
                        ![p].pages = {g.slug : g \in {q \in pages :
                                                      q.siteId = loc[p].site}}]
            /\ last' = NoResp
            /\ UNCHANGED hist
       ELSE SiteError(p, 404, "SITE_NOT_FOUND")
    /\ UNCHANGED <<users, sessions, now, ticks, changes, issued,
                   accFor, refFor, accepted, pwRevoked, rlVars, extVars>>

(* const newSlug = await generateSlug(`${originalSite.name} Copy`, userId) *)
DuplicateSlug(p) ==
    /\ pc[p] = "dup_slug"
    /\ pc' = [pc EXCEPT ![p] = "dup_create"]
    /\ loc' = [loc EXCEPT ![p].slug = generateSlug(loc[p].name, loc[p].reqUser.id)]
    /\ last' = NoResp
    /\ UNCHANGED <<users, sessions, now, ticks, changes, issued, ghostVars,
                   rlVars, extVars>>

DuplicateCreate(p) ==
    /\ pc[p] = "dup_create"
    /\ SiteCreate(p, "dup_pages")

(* The pages of the original as they were read, then the 201 *)
DuplicatePages(p) ==
    /\ pc[p] = "dup_pages"
    /\ SitePages(p, loc[p].pages, "Site duplicated successfully")

(* Create-site and duplicate-site requests of the clients *)
Sites(P) ==
    \/ \E p \in P, tok \in Presentable :
          AuthVerify(p, "create-site", tok, "", "")
    \/ \E p \in P, tok \in Presentable :
          AuthVerify(p, "duplicate-site", tok, "", "")
    \/ \E p \in P : AuthLastLogin(p, TRUE)
    \/ \E p \in P, name \in SiteNames : CreateSiteCount(p, name, BaseSlug(name))
    \/ \E p \in P : CreateSiteSlug(p)
    \/ \E p \in P : CreateSiteCreate(p)
    \/ \E p \in P : CreateSitePages(p)
    \/ \E p \in P, id \in 1..MaxSites : DuplicateCount(p, id)
    \/ \E p \in P : DuplicateFind(p)
    \/ \E p \in P : DuplicateSlug(p)
    \/ \E p \in P : DuplicateCreate(p)
    \/ \E p \in P : DuplicatePages(p)

(* The plan of an account changes *)
PlanChanges ==
    \E u \in UserIds, pl \in Plans :
       /\ users[u].subscriptionPlan # pl
       /\ AccountChange(u, users[u].role, pl, users[u].subscriptionStatus)

(* Two clients of the registered account create and duplicate sites while  *)
(* its plan may change                                                     *)
NextSites ==
    \/ Sites(Procs)
    \/ PlanChanges

SpecSites == InitRegistered /\ [][NextSites]_vars

(* requireRole(roles): the calls made on res and next for the identity     *)
(* attached to the request                                                 *)
requireRole(roles, user) ==
    IF user = NoIdentity
    THEN [status |-> 401, msg |-> "Authentication required",
          events |-> <<>>, calls |-> <<>>]
    ELSE IF user.role \notin roles
    THEN [status |-> 403, msg |-> "Insufficient permissions",
          events |-> <<logSecurityEvent("Insufficient permissions", "medium")>>,
          calls |-> <<>>]
    ELSE [status |-> 0, msg |-> "next", events |-> <<>>, calls |-> <<"next">>]

(* requirePlan(plans) *)
requirePlan(plans, user) ==
    IF user = NoIdentity
    THEN [status |-> 401, msg |-> "Authentication required",
          events |-> <<>>, calls |-> <<>>]
    ELSE IF user.subscriptionPlan \notin plans
    THEN [status |-> 403,
          msg |-> "Upgrade your subscription to access this feature",
          events |-> <<>>, calls |-> <<>>]
    ELSE [status |-> 0, msg |-> "next", events |-> <<>>, calls |-> <<"next">>]

(* A guard for administrators that leaves the super administrators out *)
requireAdmin_onlyAdmin(user) == requireRole({"ADMIN"}, user)

requireAdmin(user)      == requireRole({"ADMIN", "SUPER_ADMIN"}, user)
requireSuperAdmin(user) == requireRole({"SUPER_ADMIN"}, user)
requirePremium(user)    == requirePlan({"PREMIUM", "ENTERPRISE"}, user)
requireEnterprise(user) == requirePlan({"ENTERPRISE"}, user)

RoleGuards  == {"requireRole", "requireAdmin", "requireSuperAdmin"}
PlanGuards  == {"requirePlan", "requirePremium", "requireEnterprise"}

(* The middleware of a route by its exported name; the two factories take  *)
(* the list of the route                                                   *)
GuardOf(mw, list, user) ==
    CASE mw = "requireRole"       -> requireRole(list, user)
      [] mw = "requirePlan"       -> requirePlan(list, user)
      [] mw = "requireAdmin"      -> requireAdmin(user)
      [] mw = "requireSuperAdmin" -> requireSuperAdmin(user)
      [] mw = "requirePremium"    -> requirePremium(user)
      [] mw = "requireEnterprise" -> requireEnterprise(user)

(* One request through a guard; req.user is what the middleware before it  *)
(* attached (optionalAuthMiddleware can leave it unset)                    *)
Guard(p, mw, list, tok) ==
    /\ pc[p] = "idle"
    /\ LET user == optionalAuthMiddleware(tok, TRUE).user
           d    == GuardOf(mw, list, user)
       IN Respond(p, [Resp("guarded", tok, d.status, d.msg)
                        EXCEPT !.user = user, !.calls = d.calls,
                               !.events = d.events, !.by = mw,
                               !.need = list])
    /\ UNCHANGED <<users, sessions, now, ticks, changes, issued, ghostVars,
                   rlVars, extVars>>

(* Routes behind each of the exported guards and behind guards built from  *)
(* any list of roles or plans, while role and plan of the account change   *)
Guards(P) ==
    \/ \E p \in P, tok \in Presentable, roles \in SUBSET Roles :
          Guard(p, "requireRole", roles, tok)
    \/ \E p \in P, tok \in Presentable, plans \in SUBSET Plans :
          Guard(p, "requirePlan", plans, tok)
    \/ \E p \in P, tok \in Presentable,
          mw \in (RoleGuards \cup PlanGuards) \ {"requireRole", "requirePlan"} :
          Guard(p, mw, {}, tok)

NextGuards ==
    \/ Clock({NextSecond})
    \/ Guards({"p1"})
    \/ AccountChanges

SpecGuards == InitRegistered /\ [][NextGuards]_vars

(* One rate limiter, two identities and anonymous requests *)
InitRateLimit ==
    /\ env = DefaultEnv
    /\ sites = <<>>
    /\ pages = {}
    /\ apiKeys = <<>>
    /\ users = <<>>
    /\ sessions = <<>>
    /\ now = 0
    /\ ticks = 0
    /\ changes = 0
    /\ pc = [p \in Procs |-> "idle"]
    /\ loc = [p \in Procs |-> NoLoc]
    /\ last = NoResp
    /\ issued = {}
    /\ accFor = <<>>
    /\ refFor = <<>>
    /\ accepted = {}
    /\ pwRevoked = {}
    /\ hist = [p \in Procs |-> NoHist]
    /\ RateLimitInit(0..MaxLimit, {1500, 60000})

NextRateLimit ==
    \/ \E d \in {Millisecond, NextSecond} \cup {windowMs} : Tick(d)
    \/ \E who \in RLUsers \cup {Anonymous} : userRateLimit(who)

SpecRateLimit == InitRateLimit /\ [][NextRateLimit]_vars

----------------------------------------------------------------------------
(* Properties *)

MiddlewarePassed == {"auth_lastLogin", "me_find", "logout_update", "logoutAll_update",
                     "changePassword_find", "changePassword_update",
                     "changePassword_revoke"}

(* C1: a refresh token that POST /refresh has accepted once is answered    *)
(* 401 INVALID_REFRESH_TOKEN by every refresh request that starts later.   *)
C1_RefreshSingleUse ==
    (last.op = "refresh" /\ last.h.reused)
        => (last.status = 401 /\ last.msg = "INVALID_REFRESH_TOKEN")

(* C2: of two refresh requests in flight together with the same token, at  *)
(* most one is answered 200 with a new pair (a pair other than the one the *)
(* token presented belongs to).                                            *)
C2_NoConcurrentDoubleRotation ==
    ~(/\ last.op = "refresh"
      /\ last.status = 200
      /\ last.tokens.refreshToken # last.tok
      /\ last.h.peerOk)

ValidAccessTokens ==
    {t \in issued : t.sig = jwtSecret /\ JwtVerify(t, jwtSecret, now) = "ok"}

(* C4: the identity authMiddleware attaches is the live account record as  *)
(* read at verification, not the token's claims: two valid tokens of one   *)
(* account get the same decision and identity whatever their claims.       *)
C4_IdentityFromLiveRecord ==
    /\ \A p \in Procs :
         pc[p] \in MiddlewarePassed => loc[p].reqUser = hist[p].live
    /\ \A t1, t2 \in ValidAccessTokens :
         t1.userId = t2.userId => authMiddleware(t1) = authMiddleware(t2)

C4_Witness ==
    /\ \E p \in Procs :
         /\ pc[p] \in MiddlewarePassed
         /\ loc[p].tok.role # loc[p].reqUser.role
    /\ \E t1, t2 \in ValidAccessTokens :
         t1.userId = t2.userId /\ t1.role # t2.role

(* C5: once a password change has succeeded, no refresh token issued       *)
(* before it for another session of the account is answered 200 any more.  *)
C5_OtherSessionsRejected ==
    ~(last.op = "refresh" /\ last.status = 200 /\ last.h.pwRev)

(* C6: the revoke-all of a successful password change leaves active every  *)
(* active session the caller's access token was issued for.                *)
C6_CurrentSessionKept ==
    [][\A p \in Procs :
         (pc[p] = "changePassword_revoke" /\ pc'[p] = "idle")
            => \A s \in SessionsOf(loc[p].tok) :
                 sessions[s].isActive => sessions'[s].isActive]_vars

(* C7: authMiddleware lets a request pass exactly when its token verifies  *)
(* and the account read is ACTIVE, also when the session the token was     *)
(* issued for has been revoked: no session row enters the decision.        *)
C7_AccessTokensOutliveRevocation ==
    /\ \A p \in Procs :
         pc[p] \in MiddlewarePassed
            => (hist[p].valid /\ hist[p].live.subscriptionStatus = "ACTIVE")
    /\ last.by = "authMiddleware"
         => ~(last.h.valid /\ last.h.live.subscriptionStatus = "ACTIVE")

C7_Witness ==
    /\ last.op = "me"
    /\ last.status = 200
    /\ last.h.revoked
    /\ \A s \in SessionsOf(last.tok) : ~sessions[s].isActive

(* The requests of identity u inside its current window *)
WindowEvents(u) ==
    LET InWindow(e) ==
          e.user = u /\ e.at >= userRequests[u].resetTime - windowMs
    IN SelectSeq(rlLog, InWindow)

(* The least number of whole seconds that cover ms milliseconds *)
SecondsRoundedUp(ms) ==
    CHOOSE k \in 0..((ms \div MsPerSec) + 1) :
        k * MsPerSec >= ms /\ (k = 0 \/ (k - 1) * MsPerSec < ms)

(* C8: with maxRequests >= 1, the first maxRequests requests of an         *)
(* identity in a window are admitted and every further one is rejected     *)
(* with retryAfter = the rest of the window in seconds, rounded up, which  *)
(* lies between 0 and ceil(windowMs / 1000).                               *)
C8_RateLimitWindow ==
    maxRequests >= 1 =>
      \A u \in RLUsers :
        userRequests[u] # NoLimit =>
          LET w == WindowEvents(u) IN
          \A i \in 1..Len(w) :
            IF i <= maxRequests
            THEN w[i].verdict = "next"
            ELSE /\ w[i].verdict = "429"
                 /\ w[i].retryAfter =
                      SecondsRoundedUp(userRequests[u].resetTime - w[i].at)
                 /\ w[i].retryAfter >= 0
                 /\ w[i].retryAfter <= SecondsRoundedUp(windowMs)

C8_Witness ==
    /\ maxRequests = 2
    /\ \E u \in RLUsers :
         /\ userRequests[u] # NoLimit
         /\ Len(WindowEvents(u)) = 3
         /\ WindowEvents(u)[3].verdict = "429"
         /\ WindowEvents(u)[3].retryAfter = 2
         /\ windowMs = 1500

(* C9: a logout of a session that is already revoked answers 200 and       *)
(* changes no session, and no step makes an inactive session active.       *)
C9_RevokeIdempotentPermanent ==
    [][/\ \A s \in SessionIds : ~sessions[s].isActive => ~sessions'[s].isActive
       /\ \A p \in Procs :
            (/\ pc[p] = "logout_update"
             /\ pc'[p] = "idle"
             /\ \A s \in SessionIds : LogoutWhere(p, s) => ~sessions[s].isActive)
               => (sessions' = sessions /\ last'.status = 200)]_vars

C9_Witness ==
    /\ last.op = "logout"
    /\ last.status = 200
    /\ last.h.revoked
    /\ \E s \in SessionIds : sessions[s].token = last.tok /\ ~sessions[s].isActive

(* C10: a session that is revoked or expired is never again one that POST  *)
(* /refresh accepts.                                                       *)
C10_RevokedExpiredTerminal ==
    [][\A s \in SessionIds :
         (~sessions[s].isActive \/ sessions[s].expiresAt <= now)
            => (~sessions'[s].isActive \/ sessions'[s].expiresAt <= now')]_vars

(* C11: a POST /refresh answered 200 adds and removes no session row,      *)
(* writes only the session its refresh token was issued for (the returned  *)
(* pair and now + 7 days; user id and is_active as they were) and changes  *)
(* no other session and no account; a session row is added only by the     *)
(* session step of a register or a login, one row each.                    *)
C11_RefreshRotatesInPlace ==
    [][/\ \A p \in Procs :
            (/\ pc[p] = "refresh_update"
             /\ last'.p = p
             /\ last'.status = 200)
               => LET s == loc[p].sid IN
                  /\ Len(sessions') = Len(sessions)
                  /\ loc[p].tok \in refFor[s]
                  /\ sessions'[s] =
                        [userId       |-> sessions[s].userId,
                         isActive     |-> sessions[s].isActive,
                         token        |-> last'.tokens.accessToken,
                         refreshToken |-> last'.tokens.refreshToken,
                         expiresAt    |-> now + SessionTTLMs]
                  /\ \A t \in SessionIds \ {s} : sessions'[t] = sessions[t]
                  /\ users' = users
       /\ Len(sessions') # Len(sessions)
            => /\ Len(sessions') = Len(sessions) + 1
               /\ SubSeq(sessions', 1, Len(sessions)) = sessions
               /\ \E p \in Procs :
                     \/ pc[p] = "register_session" /\ last'.status = 201
                     \/ pc[p] = "login_session" /\ pc'[p] = "login_lastLogin"
       /\ \A p \in Procs :
            (\/ pc[p] = "register_session" /\ last'.p = p /\ last'.status = 201
             \/ pc[p] = "login_session" /\ pc'[p] = "login_lastLogin")
               => Len(sessions') = Len(sessions) + 1]_vars

C11_Witness ==
    /\ last.op = "refresh"
    /\ last.status = 200
    /\ last.tokens.refreshToken # last.tok
    /\ Len(sessions) = 2
    /\ \E s \in SessionIds :
         sessions[s].refreshToken = last.tokens.refreshToken /\ ~sessions[s].isActive

(* What a failed login leaves behind: no tokens, no identity, no session,  *)
(* no account written (last_login included), nothing issued.               *)
LoginLeavesNoTrace ==
    /\ last'.tokens = NoTokens
    /\ last'.user = NoIdentity
    /\ sessions' = sessions
    /\ users' = users
    /\ issued' = issued

(* C12 as claimed: a login with an unknown email or a wrong password is    *)
(* always answered 401 INVALID_CREDENTIALS.                                *)
C12_AlwaysInvalidCredentials ==
    [][(last'.op = "login" /\ last'.h.cred \in {"unknown", "wrong"})
          => (last'.status = 401 /\ last'.msg = "INVALID_CREDENTIALS")]_vars

(* C12 as amended: a login whose body passes the validators (an email      *)
(* address, a password that is not empty) with an unknown email or a wrong *)
(* password is answered 401 INVALID_CREDENTIALS, the same in both cases    *)
(* and whatever the status of the account, and leaves no trace; a login    *)
(* whose body does not pass them is answered 400 VALIDATION_ERROR and      *)
(* leaves no trace either.                                                 *)
C12_BadCredentialsRejected ==
    [][(last'.op = "login" /\ last'.h.cred \in {"unknown", "wrong"})
          => /\ LoginLeavesNoTrace
             /\ IF last'.h.wellFormed
                THEN last'.status = 401 /\ last'.msg = "INVALID_CREDENTIALS"
                ELSE last'.status = 400 /\ last'.msg = "VALIDATION_ERROR"]_vars

C12_Witness ==
    /\ last.op = "login"
    /\ last.h.cred = "wrong"
    /\ last.h.wellFormed
    /\ last.h.live.subscriptionStatus = "SUSPENDED"
    /\ last.status = 401

(* C13: no two accounts hold the same email, whatever the interleaving of  *)
(* the registers; a register whose lookup finds the email, or whose insert *)
(* the unique index rejects, is answered 409 and writes no account and no  *)
(* session.                                                                *)
C13_EmailsUnique ==
    [][/\ \A i, j \in 1..Len(users') :
            users'[i].email = users'[j].email => i = j
       /\ \A p \in Procs :
            (\/ /\ pc[p] = "idle"
                /\ last'.op = "register"
                /\ last'.p = p
                /\ last'.h.wellFormed
                /\ last'.h.cred = "taken"
             \/ /\ pc[p] = "register_create"
                /\ pc'[p] # "register_create"
                /\ \E u \in UserIds : users[u].email = loc[p].user.email)
               => /\ last'.op = "register"
                  /\ last'.p = p
                  /\ last'.status = 409
                  /\ last'.tokens = NoTokens
                  /\ users' = users
                  /\ sessions' = sessions]_vars

C13_Witness ==
    /\ last.op = "register"
    /\ last.status = 409
    /\ last.msg = "DUPLICATE_ENTRY"
    /\ Len(users) = 2
    /\ users[1].email # users[2].email

----------------------------------------------------------------------------
(* The causes of a failure, read from what held when the request was       *)
(* checked                                                                 *)
NotActive(identity) ==
    identity # NoIdentity /\ identity.subscriptionStatus # "ACTIVE"

(* The requests of identity u that the limiter met with its window full *)
Tripped(u) ==
    {i \in 1..Len(WindowEvents(u)) : i > maxRequests}

(* C15: every failure leaves with the documented status: a missing,        *)
(* malformed or expired access token and an invalid refresh token give     *)
(* 401, an inactive account gives 403 in authMiddleware, login, refresh    *)
(* and apiKeyAuth, a rate-limit trip gives 429, an unclassified failure    *)
(* (a write the storage refuses) gives 500; no request with one of these   *)
(* causes is answered 2xx or passed on with next().                        *)
C15_FailureStatus ==
    /\ last.by = "authMiddleware" =>
         /\ (last.tok = NoToken \/ ~last.h.valid) => last.status = 401
         /\ (last.h.valid /\ last.h.live = NoIdentity) => last.status = 401
         /\ (last.h.valid /\ NotActive(last.h.live)) => last.status = 403
         /\ last.h.fault => last.status = 500
    /\ (last.op = "refresh" /\ last.tok # NoToken) =>
         /\ (~last.h.valid \/ last.h.cred = "noSession") => last.status = 401
         /\ (last.h.valid /\ NotActive(last.h.live)) => last.status = 403
    /\ (last.op = "login" /\ last.h.cred = "right" /\ NotActive(last.h.live))
         => last.status = 403
    /\ last.by = "apiKeyAuth" =>
         /\ (last.h.cred = "usable" /\ NotActive(last.h.live)) => last.status = 403
         /\ last.h.fault => last.status = 500
    /\ maxRequests >= 1 =>
         \A u \in RLUsers : \A i \in Tripped(u) :
            WindowEvents(u)[i].verdict = "429"
    /\ \A p \in Procs :
         /\ (pc[p] = "auth_lastLogin" \/ pc[p] = "me_find")
              => /\ loc[p].tok # NoToken
                 /\ hist[p].valid
                 /\ hist[p].live.subscriptionStatus = "ACTIVE"
         /\ pc[p] = "refresh_update"
              => hist[p].valid /\ hist[p].cred = "session"
         /\ pc[p] = "apiKey_lastUsed"
              => /\ hist[p].cred = "usable"
                 /\ hist[p].live.subscriptionStatus = "ACTIVE"

(* The limiter has answered 429 and authMiddleware has just answered 500   *)
(* to a valid token of an ACTIVE account whose last_login write failed     *)
C15_Witness ==
    /\ \E i \in 1..Len(rlLog) : rlLog[i].verdict = "429"
    /\ last.by = "authMiddleware"
    /\ last.h.fault
    /\ last.h.valid
    /\ last.status = 500

(* C16: authMiddleware reports a correctly signed but expired access       *)
(* token as ExpiredToken ('Access token has expired', security event       *)
(* 'Expired JWT token' at low severity) and never as MalformedToken, and   *)
(* reports a token with a bad signature or format as MalformedToken        *)
(* ('Invalid access token').                                               *)
C16_ExpiredTokenClassified ==
    (last.by = "authMiddleware" /\ last.tok # NoToken) =>
       /\ (last.tok.sig = jwtSecret /\ (now \div MsPerSec) >= last.tok.exp)
            => /\ last.status = 401
               /\ last.msg = "Access token has expired"
               /\ last.events = <<logSecurityEvent("Expired JWT token", "low")>>
       /\ last.tok.sig # jwtSecret
            => /\ last.status = 401
               /\ last.msg = "Invalid access token"

(* C17: every authentication decision of authMiddleware, login, refresh,   *)
(* and apiKeyAuth, success or failure, and every trip of userRateLimit     *)
(* emits exactly one security event: never zero, never two.                *)
C17_ExactlyOneEvent ==
    /\ last.by \in {"authMiddleware", "apiKeyAuth"} => Len(last.events) = 1
    /\ (last.op = "login" /\ last.h.wellFormed /\ last.status # 409)
         => Len(last.events) = 1
    /\ (last.op = "refresh" /\ last.tok # NoToken /\ last.status # 409)
         => Len(last.events) = 1
    /\ \A p \in Procs : pc[p] = "auth_lastLogin" => Len(loc[p].events) = 1
    /\ \A i \in 1..Len(rlLog) :
         rlLog[i].verdict = "429" => Len(rlLog[i].events) = 1

(* C18: the last_login update of authMiddleware is best-effort: a request  *)
(* with a valid token of an existing ACTIVE account that has passed the    *)
(* checks is passed on to its route whether the write succeeds or not.     *)
C18_LastLoginBestEffort ==
    [][\A p \in Procs :
         (pc[p] = "auth_lastLogin" /\ pc'[p] # "auth_lastLogin")
           => pc'[p] = RouteEntry(loc[p].op)]_vars

(* C19 as stated: optionalAuthMiddleware attaches an identity if and only  *)
(* if the token verifies, the account exists and its live status is        *)
(* ACTIVE, for every request, storage failures included.                   *)
C19_AttachesIffVerifiedActive ==
    last.by = "optionalAuthMiddleware" =>
       (last.user # NoIdentity
          <=> (last.h.valid /\ last.h.live # NoIdentity
                 /\ last.h.live.subscriptionStatus = "ACTIVE"))

(* C19: optionalAuthMiddleware never answers with an error: for every      *)
(* request (no token, forged or expired token, unknown account, account    *)
(* that is not ACTIVE, storage failure) it calls next() exactly once and   *)
(* writes no record; it attaches an identity, the live record, if and      *)
(* only if the token verifies and the lookup answers with an ACTIVE        *)
(* account; when the lookup fails the request goes on anonymous.           *)
C19_OptionalNeverFails ==
    [][\A p \in Procs :
         (last'.by = "optionalAuthMiddleware" /\ last'.p = p) =>
            /\ last'.calls = <<"next">>
            /\ last'.status = 0
            /\ pc'[p] = "idle"
            /\ <<users, sessions, apiKeys>>' = <<users, sessions, apiKeys>>
            /\ (last'.user # NoIdentity
                  <=> (last'.h.valid /\ ~last'.h.fault
                         /\ last'.h.live # NoIdentity
                         /\ last'.h.live.subscriptionStatus = "ACTIVE"))
            /\ last'.user # NoIdentity => last'.user = last'.h.live]_vars

(* A request with a valid token of an ACTIVE account went on anonymous     *)
(* because the lookup failed, after the account had been changed           *)
C19_Witness ==
    /\ last.by = "optionalAuthMiddleware"
    /\ last.calls = <<"next">>
    /\ last.h.valid
    /\ last.h.fault
    /\ last.h.live.subscriptionStatus = "ACTIVE"
    /\ last.user = NoIdentity
    /\ changes > 0

(* The tokens generateTokens has signed as refresh tokens, as access tokens *)
RefreshTokens == UNION {refFor[s] : s \in SessionIds}
AccessTokens  == UNION {accFor[s] : s \in SessionIds}

(* C20: for every configuration that passes startup validation,            *)
(* authMiddleware rejects a request whose bearer token is a refresh token  *)
(* issued by generateTokens, and POST /refresh rejects an access token     *)
(* presented as a refresh token.                                           *)
C20_RefreshTokenNeverAuthenticates ==
    /\ \A p \in Procs :
         /\ pc[p] \in {"auth_lastLogin", "me_find"} => loc[p].tok \notin RefreshTokens
         /\ pc[p] = "refresh_update" => loc[p].tok \notin AccessTokens
    /\ (last.op = "me" /\ last.tok \in RefreshTokens)
         => last.by = "authMiddleware" /\ last.status = 401
    /\ (last.op = "refresh" /\ last.tok \in AccessTokens)
         => last.status = 401

(* C21: two logins of the same ACTIVE account with the right password,     *)
(* concurrent or in the same clock second, both succeed and leave two      *)
(* distinct active sessions: a login that has passed its checks creates    *)
(* its session whatever session another login has created.                 *)
C21_ConcurrentLoginsSucceed ==
    [][\A p \in Procs :
         (/\ pc[p] = "login_session"
          /\ pc'[p] # "login_session"
          /\ sessions[1].token # generateTokens(loc[p].user, now).accessToken)
           => /\ pc'[p] = "login_lastLogin"
              /\ Len(sessions') = Len(sessions) + 1
              /\ sessions'[Len(sessions')].isActive
              /\ \A s \in SessionIds :
                   sessions'[Len(sessions')].refreshToken # sessions[s].refreshToken]_vars

(* C22: no token pair is issued for an account whose live status is not    *)
(* ACTIVE: login and POST /refresh read the status from the account        *)
(* record when they look the request up, never from the token, answer 403  *)
(* ACCOUNT_INACTIVE to an otherwise good request of such an account and    *)
(* then create or modify no session and issue nothing.                     *)
C22_NoPairForInactiveAccount ==
    [][\A p \in Procs :
         /\ (pc[p] = "idle" /\ pc'[p] = "login_session")
              => /\ loc'[p].user = users[loc'[p].user.id]
                 /\ loc'[p].user.subscriptionStatus = "ACTIVE"
         /\ (pc[p] = "idle" /\ last'.p = p /\ last'.op = "login"
                /\ last'.h.cred = "right" /\ last'.h.wellFormed)
              => /\ last'.h.live = SelectIdentity(users[last'.h.live.id])
                 /\ NotActive(last'.h.live)
                 /\ last'.status = 403
                 /\ last'.msg = "ACCOUNT_INACTIVE"
                 /\ sessions' = sessions /\ issued' = issued
         /\ (pc[p] = "idle" /\ pc'[p] = "refresh_update")
              => loc'[p].reqUser = SelectIdentity(users[sessions[loc'[p].sid].userId])
         /\ (pc[p] = "refresh_update" /\ pc'[p] = "idle")
              => IF loc[p].reqUser.subscriptionStatus # "ACTIVE"
                 THEN /\ last'.status = 403
                      /\ last'.msg = "ACCOUNT_INACTIVE"
                      /\ sessions' = sessions /\ issued' = issued
                 ELSE last'.status # 403
         /\ (pc[p] # pc'[p] /\ issued' # issued)
              => /\ last'.status = 200
                 /\ pc[p] = "refresh_update" => loc[p].reqUser.subscriptionStatus = "ACTIVE"
                 /\ pc[p] = "login_lastLogin" => loc[p].user.subscriptionStatus = "ACTIVE"]_vars

(* POST /refresh has answered 403 to the current refresh token of a        *)
(* session that is still active, whose payload says ACTIVE, after the      *)
(* account was suspended or deactivated                                    *)
C22_Witness ==
    /\ last.op = "refresh"
    /\ last.status = 403
    /\ last.tok.subscriptionStatus = "ACTIVE"
    /\ users[last.tok.userId].subscriptionStatus # "ACTIVE"
    /\ \E s \in SessionIds : sessions[s].refreshToken = last.tok /\ sessions[s].isActive

(* C23: after a successful POST /logout authenticated with a still-valid   *)
(* access token issued for session S, S is inactive, also when S was       *)
(* rotated between the issue of that access token and the logout.          *)
C23_LogoutEndsSession ==
    [][\A p \in Procs :
         (pc[p] = "logout_update" /\ pc'[p] = "idle" /\ last'.status = 200)
            => \A s \in SessionsOf(loc[p].tok) : ~sessions'[s].isActive]_vars

(* C24: after a successful POST /logout-all every session of the account   *)
(* that existed when the request ran is inactive, the caller's own         *)
(* included, and none of their refresh tokens is accepted afterwards (no   *)
(* POST /refresh is answered 200 for a session that is inactive); the      *)
(* sessions of other accounts are left as they were.                       *)
C24_LogoutAllEndsEverySession ==
    [][\A p \in Procs :
         /\ (pc[p] = "logoutAll_update" /\ pc'[p] = "idle")
              => \A s \in SessionIds :
                   IF sessions[s].userId = loc[p].reqUser.id
                   THEN ~sessions'[s].isActive
                   ELSE sessions'[s] = sessions[s]
         /\ (pc[p] = "refresh_update" /\ pc'[p] = "idle" /\ last'.status = 200)
              => sessions[loc[p].sid].isActive]_vars

(* C25: the window resets lazily: a rejected request neither increments    *)
(* the count nor moves the reset time; the first request of an identity    *)
(* that arrives strictly after its reset time is admitted and starts a     *)
(* new window with count = 1 and reset time = now + windowMs; nothing of   *)
(* the limiter changes between requests.                                   *)
C25_LazyWindowReset ==
    [][IF rlLog' = rlLog
       THEN userRequests' = userRequests
       ELSE LET e == rlLog'[Len(rlLog')] IN
            /\ e.verdict = "429" => userRequests' = userRequests
            /\ (e.user \in RLUsers /\ userRequests[e.user] # NoLimit
                  /\ now > userRequests[e.user].resetTime)
                 => /\ e.verdict = "next"
                    /\ userRequests'[e.user] =
                         [count |-> 1, resetTime |-> now + windowMs]]_vars

(* An identity was rejected, its window ran out, and its next request was  *)
(* admitted into a new window                                              *)
C25_Witness ==
    \E i, j \in 1..Len(rlLog) :
       /\ i < j
       /\ j = Len(rlLog)
       /\ rlLog[i].user = rlLog[j].user
       /\ rlLog[i].verdict = "429"
       /\ rlLog[j].verdict = "next"
       /\ userRequests[rlLog[j].user] = [count |-> 1, resetTime |-> rlLog[j].at + windowMs]
       /\ rlLog[j].at > rlLog[i].at

(* The requests of identity u admitted from time t on, before t + windowMs *)
AdmittedWithin(u, t) ==
    {j \in 1..Len(rlLog) : /\ rlLog[j].user = u
                           /\ rlLog[j].verdict = "next"
                           /\ rlLog[j].at >= t
                           /\ rlLog[j].at < t + windowMs}

(* C26: the cap is a sliding-window cap: with maxRequests >= 1, in every   *)
(* interval of length windowMs, wherever it starts, at most maxRequests    *)
(* requests of one identity are admitted.                                  *)
C26_SlidingWindowCap ==
    maxRequests >= 1 =>
      \A u \in RLUsers : \A i \in 1..Len(rlLog) :
         Cardinality(AdmittedWithin(u, rlLog[i].at)) <= maxRequests

(* C27: no auth operation leaves partial state: when register, login or    *)
(* change-password ends in an error response, also when it is cut off      *)
(* between two of its writes, every account has a session, every session   *)
(* holds tokens that a response has carried, and the password is the one   *)
(* the request found.                                                      *)
C27_NoPartialState ==
    [][\A p \in Procs :
         (pc[p] # "idle" /\ pc'[p] = "idle" /\ last'.status >= 400)
            => /\ users' = users /\ sessions' = sessions
               /\ \A u \in UserIds : \E s \in SessionIds : sessions[s].userId = u
               /\ \A s \in SessionIds : sessions[s].token \in issued
               /\ loc[p].op = "change-password"
                    => users[loc[p].reqUser.id].passwordHash
                         = hashPassword(loc[p].currentPassword)]_vars

(* max(1, maxRequests) *)
CountCap == IF maxRequests >= 1 THEN maxRequests ELSE 1

(* C28: the state of the limiter is per identity: a request of identity A  *)
(* never creates or changes the entry of another identity B, a request     *)
(* without an identity is passed on and changes no entry, and every entry  *)
(* has 1 <= count <= max(1, maxRequests) in every reachable state.         *)
C28_PerIdentityEntries ==
    /\ [](\A u \in RLUsers :
            userRequests[u] # NoLimit
              => userRequests[u].count >= 1 /\ userRequests[u].count <= CountCap)
    /\ [][rlLog' # rlLog =>
            LET e == rlLog'[Len(rlLog')] IN
            /\ \A b \in RLUsers : b # e.user => userRequests'[b] = userRequests[b]
            /\ e.user = Anonymous
                 => e.verdict = "next" /\ userRequests' = userRequests]_vars

(* Two identities hold entries with different counts and a request         *)
(* without identity has just been passed on                                *)
C28_Witness ==
    /\ userRequests["u1"] # NoLimit /\ userRequests["u2"] # NoLimit
    /\ userRequests["u1"].count = 2
    /\ userRequests["u2"].count = 1
    /\ Len(rlLog) > 0
    /\ rlLog[Len(rlLog)].user = Anonymous
    /\ rlLog[Len(rlLog)].verdict = "next"

(* The roles or plans a guard lets through, as the specification lists     *)
(* them for the four exported guards                                       *)
Admitted(r) ==
    CASE r.by = "requireAdmin"      -> {"ADMIN", "SUPER_ADMIN"}
      [] r.by = "requireSuperAdmin" -> {"SUPER_ADMIN"}
      [] r.by = "requirePremium"    -> {"PREMIUM", "ENTERPRISE"}
      [] r.by = "requireEnterprise" -> {"ENTERPRISE"}
      [] OTHER                      -> r.need

(* C29: requireRole(roles) and requirePlan(plans) answer 401 when no       *)
(* identity is attached, 403 when the role (the plan) of the identity is   *)
(* not in the list, and call next() exactly when it is; requireAdmin       *)
(* admits exactly ADMIN and SUPER_ADMIN, requireSuperAdmin exactly         *)
(* SUPER_ADMIN, requirePremium exactly PREMIUM and ENTERPRISE and          *)
(* requireEnterprise exactly ENTERPRISE.                                   *)
C29_ExactMembership ==
    last.by \in RoleGuards \cup PlanGuards =>
       LET value == IF last.by \in RoleGuards THEN last.user.role
                    ELSE last.user.subscriptionPlan
       IN CASE last.user = NoIdentity ->
                 last.status = 401 /\ last.calls = <<>>
            [] last.user # NoIdentity /\ value \notin Admitted(last) ->
                 last.status = 403 /\ last.calls = <<>>
            [] OTHER ->
                 last.status = 0 /\ last.calls = <<"next">>

(* A super administrator has passed requireAdmin *)
C29_Witness ==
    /\ last.by = "requireAdmin"
    /\ last.user.role = "SUPER_ADMIN"
    /\ last.calls = <<"next">>

(* The sites of the owner of site i that existed once i was created *)
SitesUpTo(i) == {j \in SiteIds : j <= i /\ sites[j].userId = sites[i].userId}

(* C30: the number of sites of an account never exceeds the limit of the   *)
(* plan it had when each site was created (BASIC 1, PREMIUM 5, ENTERPRISE  *)
(* unlimited), under every interleaving of create-site and duplicate-site  *)
(* requests of the account; a request at the limit fails with 403          *)
(* SITE_LIMIT_EXCEEDED and creates no site and no page.                    *)
C30_SiteLimit ==
    /\ [](\A i \in SiteIds :
            \/ sites[i].planAt = "ENTERPRISE"
            \/ sites[i].planAt = "BASIC" /\ Cardinality(SitesUpTo(i)) <= 1
            \/ sites[i].planAt = "PREMIUM" /\ Cardinality(SitesUpTo(i)) <= 5)
    /\ [][\A p \in Procs :
            /\ pc[p] \in {"site_count", "dup_count"}
            /\ pc'[p] # pc[p]
            /\ loc[p].reqUser.subscriptionPlan = "BASIC"
            /\ SiteCount(loc[p].reqUser.id) >= 1
            => /\ last'.status = 403
               /\ last'.msg = "SITE_LIMIT_EXCEEDED"
               /\ sites' = sites
               /\ pages' = pages]_vars

====
